---- MODULE Spec2Model ----
(***************************************************************************)
(* A model of the olive3d software rasteriser: the triangle scan converter *)
(* with its depth buffer (src/src/renderer.rs) and the Cohen-Sutherland    *)
(* line clipper (src/src/geometry.rs).                                     *)
(*                                                                         *)
(* Numbers.  The code computes in f32.  Screen coordinates are modelled as *)
(* integers counted in units of 1/Scale pixel (Scale = 2, so that a pixel  *)
(* centre x + 0.5 is the integer 2x + 1 and a vertex may sit on a          *)
(* half-integer).  Quotients are exact rationals <<n, d>> with d > 0 in    *)
(* lowest terms.  For the magnitudes of the bounded inputs every sum,      *)
(* difference and product of the code is exact in f32; the quotients are   *)
(* rounded by f32, which keeps their sign and their order with respect to  *)
(* 0 and 1, so every branch on a weight is decided as in the code.  The    *)
(* f32 values that are no rationals (NaN, +infinity, f32::MIN) are kept as *)
(* tagged values, see the depth section.                                   *)
(***************************************************************************)
EXTENDS Integers, Sequences, FiniteSets, TLC

VARIABLES
    width, height,      \* Renderer.width, Renderer.height (stride = width)
    buffer,             \* Renderer.buffer: index -> pixel
    z_buffer,           \* Renderer.z_buffer: index -> depth
    last,               \* the last operation on the renderer and what it did
    ntri,               \* fill_triangle calls since the last fill
    seen,               \* the cells a fragment has covered since the last fill
    scan,               \* position of a fill_triangle running pixel by pixel
    bary_in, bary_out,  \* argument and result of a call of barycentric
    clip,               \* the locals of a running Line2D::box_clip
    ray,                \* a Ray and the coordinates pulled from it
    ppm,                \* an image being saved to and loaded from a file
    obj,                \* a mesh file being loaded by Model::new
    call                \* argument and result of a call of another function

vars == <<width, height, buffer, z_buffer, last, ntri, seen, scan, bary_in, bary_out,
          clip, ray, ppm, obj, call>>

(***************************************************************************)
(* Bounds of the model.                                                    *)
(***************************************************************************)
\* coordinates of the barycentric inputs: 0 .. BaryMax, in units of 1/Scale
BaryMax == 3

\* units per pixel: the pixel centre is x + 0.5 (renderer.rs:72)
Scale == 2

(***************************************************************************)
(* Exact rationals.                                                        *)
(***************************************************************************)
Abs(n) == IF n < 0 THEN -n ELSE n

Sign(n) == IF n < 0 THEN -1 ELSE IF n > 0 THEN 1 ELSE 0

RECURSIVE Gcd(_, _)
Gcd(a, b) == IF b = 0 THEN a ELSE Gcd(b, a % b)

\* the rational n/d (d # 0) in lowest terms with a positive denominator
Rat(n, d) ==
    LET g == Gcd(Abs(n), Abs(d))
        s == IF d < 0 THEN -1 ELSE 1
    IN  <<s * (n \div g), s * (d \div g)>>

RInt(n) == <<n, 1>>
RAdd(a, b) == Rat(a[1] * b[2] + b[1] * a[2], a[2] * b[2])
RSub(a, b) == Rat(a[1] * b[2] - b[1] * a[2], a[2] * b[2])
RMul(a, b) == Rat(a[1] * b[1], a[2] * b[2])
RDiv(a, b) == Rat(a[1] * b[2], a[2] * b[1])
RLt(a, b) == a[1] * b[2] < b[1] * a[2]
RLe(a, b) == a[1] * b[2] <= b[1] * a[2]
RNeg(a) == a[1] < 0

(***************************************************************************)
(* geometry.rs: the cross product of two 3-vectors.                        *)
(***************************************************************************)
cross(a, b) ==
    << a[2] * b[3] - a[3] * b[2],
       a[3] * b[1] - a[1] * b[3],
       a[1] * b[2] - a[2] * b[1] >>

(***************************************************************************)
(* renderer.rs: barycentric.  All eight arguments are in units of 1/Scale, *)
(* so the cross product is in units of 1/Scale^2 and the test |u.z| < 1.0  *)
(* reads |u.z| < Scale^2.  The result is (u, v, w) as three rationals.     *)
(***************************************************************************)
Sentinel == <<RInt(-1), RInt(1), RInt(1)>>

\* a mutant: the degenerate test dropped to u.z = 0 only
barycentric_exactzero(x, y, x0, y0, x1, y1, x2, y2) ==
    LET u == cross(<<x2 - x0, x1 - x0, x0 - x>>, <<y2 - y0, y1 - y0, y0 - y>>)
    IN  IF u[3] = 0
        THEN Sentinel
        ELSE << RSub(RInt(1), Rat(u[1] + u[2], u[3])),
                Rat(u[2], u[3]),
                Rat(u[1], u[3]) >>

\* a mutant: the first weight forgets u.y
barycentric_wrongsum(x, y, x0, y0, x1, y1, x2, y2) ==
    LET u == cross(<<x2 - x0, x1 - x0, x0 - x>>, <<y2 - y0, y1 - y0, y0 - y>>)
    IN  IF Abs(u[3]) < Scale * Scale
        THEN Sentinel
        ELSE << RSub(RInt(1), Rat(u[1], u[3])),
                Rat(u[2], u[3]),
                Rat(u[1], u[3]) >>

barycentric(x, y, x0, y0, x1, y1, x2, y2) ==
    LET u == cross(<<x2 - x0, x1 - x0, x0 - x>>, <<y2 - y0, y1 - y0, y0 - y>>)
    IN  IF Abs(u[3]) < Scale * Scale
        THEN Sentinel
        ELSE << RSub(RInt(1), Rat(u[1] + u[2], u[3])),
                Rat(u[2], u[3]),
                Rat(u[1], u[3]) >>

(***************************************************************************)
(* f32 depths.  A depth is <<"num", n, d>> (the rational n/d), or one of   *)
(* the three f32 values the code can store or compute that are no          *)
(* rationals of the model: f32::MIN (below every depth a bounded input can *)
(* produce), +infinity (1.0 / 0.0) and NaN (0.0 / 0.0).  The vertex depths *)
(* of the model are integers >= 0 and the weights that reach the division  *)
(* passed the inside test, so no negative infinity arises.                 *)
(***************************************************************************)
F32Min == <<"min", 0, 1>>
NaN == <<"nan", 0, 1>>
PInf == <<"inf", 0, 1>>
Num(r) == <<"num", r[1], r[2]>>
Val(f) == <<f[2], f[3]>>

\* a < b on f32: false as soon as one side is NaN
FLt(a, b) ==
    CASE a[1] = "nan" \/ b[1] = "nan" -> FALSE
      [] a[1] = "inf" -> FALSE
      [] a[1] = "min" -> b[1] \in {"num", "inf"}
      [] OTHER -> \/ b[1] = "inf"
                  \/ b[1] = "num" /\ RLt(Val(a), Val(b))

\* bc[i] /= verts[i].z(): a weight >= 0 divided by a vertex depth
FDivW(w, z) ==
    IF z = 0
    THEN (IF w[1] = 0 THEN NaN ELSE PInf)
    ELSE Num(RDiv(w, RInt(z)))

FAdd(a, b) ==
    CASE a[1] = "nan" \/ b[1] = "nan" -> NaN
      [] a[1] = "inf" \/ b[1] = "inf" -> PInf
      [] OTHER -> Num(RAdd(Val(a), Val(b)))

\* 1.0 / z
FRecip(a) ==
    CASE a[1] = "nan" -> NaN
      [] a[1] = "inf" -> Num(RInt(0))
      [] OTHER -> IF a[2] = 0 THEN PInf ELSE Num(RDiv(RInt(1), Val(a)))

(***************************************************************************)
(* renderer.rs: Renderer.  A pixel is the hexadecimal text of its u32.  A  *)
(* vertex is <<x, y, z>>: x and y in units of 1/Scale, z an integer depth. *)
(* A running call carries st = [buffer, z_buffer, log, touched, panicked]: *)
(* the two buffers, the shader invocations made so far, the cells (x, y)   *)
(* read or written so far, and whether an index left the slice.            *)
(***************************************************************************)
Black == "0xff000000"
White == "0xffffffff"
Zero == "0x00000000"

Min2(a, b) == IF a < b THEN a ELSE b
Max2(a, b) == IF a < b THEN b ELSE a

\* triangle_bunding_box: ((xs[0], ys[0]), (xs[2], ys[2])) of the sorted lists
triangle_bunding_box(verts) ==
    << << Min2(verts[1][1], Min2(verts[2][1], verts[3][1])),
          Min2(verts[1][2], Min2(verts[2][2], verts[3][2])) >>,
       << Max2(verts[1][1], Max2(verts[2][1], verts[3][1])),
          Max2(verts[1][2], Max2(verts[2][2], verts[3][2])) >> >>

\* f32::round of v / Scale: to the nearest integer, halves away from zero
round(v) == Sign(v) * ((2 * Abs(v) + Scale) \div (2 * Scale))

\* a mutant: the lower bound of the clamp is forgotten
clamp_nolower(v, lo, hi) == IF v > hi THEN hi ELSE v

\* a mutant: the upper bound of the clamp is forgotten
clamp_noupper(v, lo, hi) == IF v < lo THEN lo ELSE v

clamp(v, lo, hi) == IF v < lo THEN lo ELSE IF v > hi THEN hi ELSE v

\* fill_triangle, lines 63-67: the loop bounds
ClampedBox(verts, w, h) ==
    LET bb == triangle_bunding_box(verts)
    IN  [ x_min |-> clamp(round(bb[1][1]), 0, w),
          y_min |-> clamp(round(bb[1][2]), 0, h),
          x_max |-> clamp(round(bb[2][1]), 0, w),
          y_max |-> clamp(round(bb[2][2]), 0, h) ]

\* the pixels of `for y in y_min..y_max { for x in x_min..x_max`, in order
ScanOrder(box) ==
    LET bw == box.x_max - box.x_min
        bh == box.y_max - box.y_min
        n  == IF bw > 0 /\ bh > 0 THEN bw * bh ELSE 0
    IN  [k \in 1..n |-> << box.x_min + ((k - 1) % bw),
                           box.y_min + ((k - 1) \div bw) >>]

\* the weights of the centre of pixel (x, y), lines 71-80
Weights(x, y, verts) ==
    barycentric(Scale * x + 1, Scale * y + 1,
                verts[1][1], verts[1][2],
                verts[2][1], verts[2][2],
                verts[3][1], verts[3][2])

\* a mutant: edges are exclusive
Inside_strict(bc) == ~(bc[1][1] <= 0 \/ bc[2][1] <= 0 \/ bc[3][1] <= 0)

\* a mutant: the first weight is not tested
Inside_nofirst(bc) == ~(RNeg(bc[2]) \/ RNeg(bc[3]))

\* line 81, negated: the pixel is not skipped
Inside(bc) == ~(RNeg(bc[1]) \/ RNeg(bc[2]) \/ RNeg(bc[3]))

\* lines 84-89: z = 1 / (bc[0]/z0 + bc[1]/z1 + bc[2]/z2), summed from 0.0
Depth(bc, verts) ==
    FRecip(FAdd(FAdd(FAdd(Num(RInt(0)), FDivW(bc[1], verts[1][3])),
                     FDivW(bc[2], verts[2][3])),
                FDivW(bc[3], verts[3][3])))

\* a mutant: the depth test accepts an equal depth
DepthTest_le(stored, z) == FLt(stored, z) \/ (stored = z /\ z[1] # "nan")

\* a mutant: smaller wins
DepthTest_less(stored, z) == FLt(z, stored) \/ stored = F32Min

\* line 90: self.z_buffer[..] < z
DepthTest(stored, z) == FLt(stored, z)

\* Shader::fregment of the shaders of the model: one that always returns
\* Some(opaque white) and one that always returns None
Shaders == {"white", "discard"}
None == "None"
fregment(shader) == IF shader = "white" THEN White ELSE None

InSlice(st, i) == i \in DOMAIN st.buffer

\* a mutant: the pixel is written before the shader is asked
ShadePixel_always(st, i, x, y, shader) ==
    [st EXCEPT !.log = Append(@, <<"fregment", x, y>>),
               !.buffer = [@ EXCEPT ![i] = White]]

\* lines 95-97: fregment is called, and the pixel is drawn if it returns Some
ShadePixel(st, i, x, y, shader) ==
    LET color == fregment(shader)
        st1   == [st EXCEPT !.log = Append(@, <<"fregment", x, y>>)]
    IN  IF color # None
        THEN [st1 EXCEPT !.buffer = [@ EXCEPT ![i] = color]]
        ELSE st1

\* a mutant: the depth is stored only with a drawn pixel
StoreDepth_ifdrawn(st, i, z, shader) ==
    IF fregment(shader) # None
    THEN [st EXCEPT !.z_buffer = [@ EXCEPT ![i] = z]]
    ELSE st

\* line 94: self.z_buffer[..] = z
StoreDepth(st, i, z, shader) == [st EXCEPT !.z_buffer = [@ EXCEPT ![i] = z]]

\* lines 71-98: the body of the loops for pixel (x, y), stride = width
FillPixel(st, x, y, verts, shader, w) ==
    LET bc == Weights(x, y, verts)
        i  == x + y * w
        z  == Depth(bc, verts)
    IN  IF st.panicked \/ ~Inside(bc)
        THEN st
        ELSE IF ~InSlice(st, i) \/ x < 0 \/ y < 0
        THEN [st EXCEPT !.panicked = TRUE]
        ELSE LET st1 == [st EXCEPT !.touched = @ \cup {<<x, y>>}]
             IN  IF DepthTest(st1.z_buffer[i], z)
                 THEN ShadePixel(StoreDepth(st1, i, z, shader), i, x, y, shader)
                 ELSE st1

RECURSIVE FillLoop(_, _, _, _, _, _)
FillLoop(st, pixels, k, verts, shader, w) ==
    IF k > Len(pixels)
    THEN st
    ELSE FillLoop(FillPixel(st, pixels[k][1], pixels[k][2], verts, shader, w),
                  pixels, k + 1, verts, shader, w)

Start(buf, zbuf) ==
    [buffer |-> buf, z_buffer |-> zbuf, log |-> <<>>, touched |-> {},
     panicked |-> FALSE]

\* Renderer::fill_triangle
fill_triangle(buf, zbuf, w, h, verts, shader) ==
    FillLoop(Start(buf, zbuf), ScanOrder(ClampedBox(verts, w, h)), 1,
             verts, shader, w)

\* a mutant: the depth buffer is cleared to 0.0
fill_zero(buf, zbuf, pixel) ==
    [buffer |-> [i \in DOMAIN buf |-> pixel],
     z_buffer |-> [i \in DOMAIN zbuf |-> Num(RInt(0))]]

\* Renderer::fill
fill(buf, zbuf, pixel) ==
    [buffer |-> [i \in DOMAIN buf |-> pixel],
     z_buffer |-> [i \in DOMAIN zbuf |-> F32Min]]

(***************************************************************************)
(* The renderer as a state machine: a frame is a fill followed by          *)
(* fill_triangle calls, made directly or by the face loop of main.rs.      *)
(***************************************************************************)
\* the frame buffer of the model is Width x Height pixels
Width == 2
Height == 2
\* fill_triangle calls of one frame
MaxTri == 2

\* the vertices the triangles of the model are made of: the corners of the
\* frame buffer at depth 1, and the far corner also at depth 2 and at depth 0
VertexPool ==
    << <<0, 0, 1>>, <<Scale * Width, 0, 1>>, <<0, Scale * Height, 1>>,
       <<Scale * Width, Scale * Height, 2>>,
       <<Scale * Width, Scale * Height, 0>> >>

\* every choice of three of them, repeats included, in the order of the pool
\* (both orientations occur)
Triangles ==
    LET I == DOMAIN VertexPool
    IN  { <<VertexPool[t[1]], VertexPool[t[2]], VertexPool[t[3]]>> :
            t \in { t \in I \X I \X I : t[1] <= t[2] /\ t[2] <= t[3] } }

FillColours == {Black, Zero}

\* the screen-space faces of the mesh the face loop of main.rs walks over
Mesh ==
    << << <<0, 0, 1>>, <<Scale * Width, 0, 1>>, <<0, Scale * Height, 1>> >>,
       << <<0, 0, 1>>, <<Scale * Width, 0, 1>>, <<Scale * Width, Scale * Height, 2>> >> >>

Cells(w, h) == 0 .. (w * h - 1)

IdleScan == [active |-> FALSE]
IdleRay == [st |-> "idle"]
IdlePpm == [st |-> "idle"]
IdleObj == [st |-> "idle"]
IdleCall == [fn |-> "none"]
IdleClip == [st |-> "idle"]
IdleLast ==
    [op |-> "new", verts |-> <<>>, shader |-> "", buffer0 |-> <<>>,
     z0 |-> <<>>, seen0 |-> {}, log |-> <<>>, touched |-> {},
     panicked |-> FALSE]

\* main.rs:63-66: the buffers main hands to Renderer::new
InitRenderer(w, h) ==
    /\ width = w
    /\ height = h
    /\ buffer = [i \in Cells(w, h) |-> Zero]
    /\ z_buffer = [i \in Cells(w, h) |-> F32Min]
    /\ last = IdleLast
    /\ ntri = 0
    /\ seen = {}

Init ==
    /\ InitRenderer(Width, Height)
    /\ scan = IdleScan
    /\ bary_in = <<>>
    /\ bary_out = <<>>
    /\ ray = IdleRay
    /\ ppm = IdlePpm
    /\ obj = IdleObj
    /\ call = IdleCall
    /\ clip = IdleClip

\* renderer.fill(pixel) for a pixel of the set colours
FillWith(colours) ==
    \E pixel \in colours :
        LET r == fill(buffer, z_buffer, pixel)
        IN  /\ buffer' = r.buffer
            /\ z_buffer' = r.z_buffer
            /\ ntri' = 0
            /\ seen' = {}
            /\ last' = [IdleLast EXCEPT !.op = "fill", !.buffer0 = buffer,
                                        !.z0 = z_buffer, !.seen0 = seen]
            /\ UNCHANGED <<width, height, scan, bary_in, bary_out, clip,
                   ray, ppm, obj, call>>

\* main.rs:86: renderer.fill(0xff000000)
Fill == FillWith({Black})

\* what a finished call leaves in the renderer and in the record of the call
Finish(op, verts, shader, pre, st) ==
    /\ buffer' = st.buffer
    /\ z_buffer' = st.z_buffer
    /\ last' = [op |-> op, verts |-> verts, shader |-> shader,
                buffer0 |-> buffer, z0 |-> z_buffer, seen0 |-> seen,
                log |-> pre \o st.log, touched |-> st.touched,
                panicked |-> st.panicked]
    /\ seen' = seen \cup { p[1] + p[2] * width : p \in st.touched }

FillTriangle ==
    /\ ntri < MaxTri
    /\ \E verts \in Triangles, shader \in Shaders :
          \E st \in {fill_triangle(buffer, z_buffer, width, height, verts, shader)} :
              Finish("fill_triangle", verts, shader, <<>>, st)
    /\ ntri' = ntri + 1
    /\ UNCHANGED <<width, height, scan, bary_in, bary_out, clip,
                   ray, ppm, obj, call>>

\* a mutant: the per-vertex loop runs backwards
VertexStage_reversed(i) == <<<<"vertex", 2>>, <<"vertex", 1>>, <<"vertex", 0>>>>

\* main.rs:90-94: the per-vertex work of face i, for j in 0..3
VertexStage(i) == [j \in 1..3 |-> <<"vertex", j - 1>>]

\* main.rs:87-118: one turn of the face loop
RenderFace ==
    /\ ntri < MaxTri
    /\ \E i \in 1..Len(Mesh) :
          \E st \in {fill_triangle(buffer, z_buffer, width, height, Mesh[i], "white")} :
              Finish("render_face", Mesh[i], "white", VertexStage(i), st)
    /\ ntri' = ntri + 1
    /\ UNCHANGED <<width, height, scan, bary_in, bary_out, clip,
                   ray, ppm, obj, call>>

Next == Fill \/ FillTriangle \/ RenderFace

Spec == Init /\ [][Next]_vars

(***************************************************************************)
(* What the last call did, for the claims about fill_triangle.             *)
(***************************************************************************)
IsTriOp(l) == l.op \in {"fill_triangle", "render_face"}

\* the candidate pixels of call l on a w x h frame buffer
BoxPixelsOf(l, w, h) ==
    LET box == ClampedBox(l.verts, w, h)
    IN  { <<x, y>> : x \in box.x_min .. (box.x_max - 1),
                     y \in box.y_min .. (box.y_max - 1) }

\* the candidate pixels whose centre passes the inside test
CoveredOf(l, w, h) ==
    { p \in BoxPixelsOf(l, w, h) : Inside(Weights(p[1], p[2], l.verts)) }

\* the corrected depth call l computes at pixel p
ZIn(l, p) == Depth(Weights(p[1], p[2], l.verts), l.verts)

Count(log, e) == Cardinality({ k \in DOMAIN log : log[k] = e })

FragCountIn(l, p) == Count(l.log, <<"fregment", p[1], p[2]>>)

\* the same of the last call
IsTri == IsTriOp(last)
BoxPixels == BoxPixelsOf(last, width, height)
Covered == CoveredOf(last, width, height)
Idx(p) == p[1] + p[2] * width
ZOf(p) == ZIn(last, p)
FragCount(p) == FragCountIn(last, p)

\* C1: in fill_triangle, for every pixel of the clamped bounding box whose
\* centre passes the inside test: if the stored depth is strictly less than
\* the corrected depth z, the depth cell becomes z and fregment is invoked
\* exactly once; otherwise the depth cell and the pixel keep their values and
\* fregment is not invoked.
C1_DepthTestGuardsWrite ==
    IsTri =>
        \A p \in Covered :
            IF FLt(last.z0[Idx(p)], ZOf(p))
            THEN /\ z_buffer[Idx(p)] = ZOf(p)
                 /\ FragCount(p) = 1
            ELSE /\ z_buffer[Idx(p)] = last.z0[Idx(p)]
                 /\ buffer[Idx(p)] = last.buffer0[Idx(p)]
                 /\ FragCount(p) = 0

\* a call in which one covered pixel passed the depth test and another
\* covered pixel, holding exactly the depth computed for it, was rejected
C1_Witness ==
    /\ IsTri
    /\ \E p \in Covered : FLt(last.z0[Idx(p)], ZOf(p))
    /\ \E p \in Covered : /\ last.z0[Idx(p)] # F32Min
                          /\ last.z0[Idx(p)] = ZOf(p)

\* the fragment of the last call at pixel p passed the depth test
Passed(p) == FragCount(p) = 1

DiscardedKeepsPixel(l, buf, zbuf, w, h) ==
    IsTriOp(l) /\ l.shader = "discard" =>
        \A p \in CoveredOf(l, w, h) :
            FLt(l.z0[p[1] + p[2] * w], ZIn(l, p)) =>
                /\ buf[p[1] + p[2] * w] = l.buffer0[p[1] + p[2] * w]
                /\ zbuf[p[1] + p[2] * w] = ZIn(l, p)

\* a call l2 that follows a discarding call l1 leaves alone every pixel
\* where its fragment is not strictly greater than the one l1 stored
LaterFragmentRejected(l1, l2, buf1, zbuf1, buf2, zbuf2, w, h) ==
    IsTriOp(l1) /\ l1.shader = "discard" /\ IsTriOp(l2) =>
        \A p \in CoveredOf(l1, w, h) \cap CoveredOf(l2, w, h) :
            /\ FLt(l1.z0[p[1] + p[2] * w], ZIn(l1, p))
            /\ ~FLt(ZIn(l1, p), ZIn(l2, p))
            => /\ buf2[p[1] + p[2] * w] = buf1[p[1] + p[2] * w]
               /\ zbuf2[p[1] + p[2] * w] = zbuf1[p[1] + p[2] * w]
               /\ FragCountIn(l2, p) = 0

\* C3: when fregment returns None for a pixel that passed the depth test,
\* the pixel keeps its previous value and the depth cell holds the new
\* depth; and a fragment of the next call at that pixel whose depth is not
\* strictly greater than the discarded one changes neither cell and does not
\* reach fregment.
C3_DiscardKeepsDepth ==
    [][ /\ DiscardedKeepsPixel(last', buffer', z_buffer', width', height')
        /\ ntri' = ntri + 1 =>
              LaterFragmentRejected(last, last', buffer, z_buffer,
                                    buffer', z_buffer', width, height) ]_vars

\* a fragment was rejected at a pixel that still shows the fill colour
\* although a depth is stored for it: an earlier fragment was discarded there
C3_Witness ==
    /\ IsTri
    /\ last.shader = "white"
    /\ \E p \in Covered : /\ last.z0[Idx(p)] # F32Min
                          /\ last.buffer0[Idx(p)] # White
                          /\ ~FLt(last.z0[Idx(p)], ZOf(p))
                          /\ ZOf(p) # NaN
                          /\ buffer[Idx(p)] # White
                          /\ FragCount(p) = 0

VertexEvents(log) == SelectSeq(log, LAMBDA e : e[1] = "vertex")

BaryCoords == 0..BaryMax

InitBary ==
    /\ InitRenderer(Width, Height)
    /\ scan = IdleScan
    /\ clip = IdleClip
    /\ bary_in \in [1..8 -> BaryCoords]
    /\ bary_out = <<>>
    /\ ray = IdleRay
    /\ ppm = IdlePpm
    /\ obj = IdleObj
    /\ call = IdleCall

\* bary_in = <<x, y, x0, y0, x1, y1, x2, y2>>
CallBarycentric ==
    /\ bary_out = <<>>
    /\ bary_out' = barycentric(bary_in[1], bary_in[2], bary_in[3], bary_in[4],
                               bary_in[5], bary_in[6], bary_in[7], bary_in[8])
    /\ UNCHANGED <<width, height, buffer, z_buffer, last, ntri, seen, scan,
                   bary_in, clip,
                   ray, ppm, obj, call>>

SpecBary == InitBary /\ [][CallBarycentric]_vars

\* twice the signed area of (a, b, c): positive, negative or zero with the
\* turn a -> b -> c
Orient(ax, ay, bx, by, cx, cy) == (bx - ax) * (cy - ay) - (by - ay) * (cx - ax)

\* twice the signed area of the triangle, in units of 1/Scale^2
Area2(x0, y0, x1, y1, x2, y2) == Orient(x0, y0, x1, y1, x2, y2)

\* the signs of the point against the three edges, taken in the order of the
\* vertices
EdgeSigns(x, y, x0, y0, x1, y1, x2, y2) ==
    << Sign(Orient(x0, y0, x1, y1, x, y)),
       Sign(Orient(x1, y1, x2, y2, x, y)),
       Sign(Orient(x2, y2, x0, y0, x, y)) >>

\* the point lies in the interior of a triangle of nonzero area
StrictlyInside(x, y, x0, y0, x1, y1, x2, y2) ==
    LET a == Sign(Area2(x0, y0, x1, y1, x2, y2))
        e == EdgeSigns(x, y, x0, y0, x1, y1, x2, y2)
    IN  a # 0 /\ e[1] = a /\ e[2] = a /\ e[3] = a

\* the point lies in the triangle, its edges and vertices included; a
\* triangle of area zero is the segment (or point) its vertices span
InClosed(x, y, x0, y0, x1, y1, x2, y2) ==
    LET a == Sign(Area2(x0, y0, x1, y1, x2, y2))
        e == EdgeSigns(x, y, x0, y0, x1, y1, x2, y2)
    IN  IF a # 0
        THEN \A k \in 1..3 : e[k] = a \/ e[k] = 0
        ELSE /\ \A k \in 1..3 : e[k] = 0
             /\ Orient(x0, y0, x1, y1, x, y) = 0
             /\ Min2(x0, Min2(x1, x2)) <= x /\ x <= Max2(x0, Max2(x1, x2))
             /\ Min2(y0, Min2(y1, y2)) <= y /\ y <= Max2(y0, Max2(y1, y2))

AllPositive(bc) == bc[1][1] > 0 /\ bc[2][1] > 0 /\ bc[3][1] > 0
SomeNegative(bc) == RNeg(bc[1]) \/ RNeg(bc[2]) \/ RNeg(bc[3])
SumsToOne(bc) == RAdd(RAdd(bc[1], bc[2]), bc[3]) = RInt(1)

BaryDone == bary_out # <<>>
BaryStrictlyInside ==
    StrictlyInside(bary_in[1], bary_in[2], bary_in[3], bary_in[4],
                   bary_in[5], bary_in[6], bary_in[7], bary_in[8])
BaryInClosed ==
    InClosed(bary_in[1], bary_in[2], bary_in[3], bary_in[4],
             bary_in[5], bary_in[6], bary_in[7], bary_in[8])
\* twice the area is at least one square pixel: |u.z| >= 1.0
BaryAreaAtLeastOne ==
    Abs(Area2(bary_in[3], bary_in[4], bary_in[5], bary_in[6],
              bary_in[7], bary_in[8])) >= Scale * Scale

TriXs == {-Scale, 0, 1, Scale * Width - 1, Scale * Width, Scale * Width + Scale}
TriYs == {-Scale, 0, 1, Scale * Height - 1, Scale * Height, Scale * Height + Scale}
TriVertices == { <<x, y, 1>> : x \in TriXs, y \in TriYs }

InitTri ==
    /\ InitRenderer(Width, Height)
    /\ scan = IdleScan
    /\ clip = IdleClip
    /\ bary_in = <<>>
    /\ bary_out = <<>>
    /\ ray = IdleRay
    /\ ppm = IdlePpm
    /\ obj = IdleObj
    /\ call = IdleCall

\* main.rs:86: the frame is cleared first
TriFill ==
    /\ last.op = "new"
    /\ FillWith(FillColours)

TriFillTriangle ==
    /\ last.op \in {"new", "fill"}
    /\ \E v0 \in TriVertices, v1 \in TriVertices, v2 \in TriVertices :
          \E st \in {fill_triangle(buffer, z_buffer, width, height,
                                   <<v0, v1, v2>>, "white")} :
              Finish("fill_triangle", <<v0, v1, v2>>, "white", <<>>, st)
    /\ ntri' = ntri + 1
    /\ UNCHANGED <<width, height, scan, bary_in, bary_out, clip,
                   ray, ppm, obj, call>>

NextTri == TriFill \/ TriFillTriangle

SpecTri == InitTri /\ [][NextTri]_vars

Unchanged == buffer = last.buffer0 /\ z_buffer = last.z0 /\ last.log = <<>>

\* two vertices coincide or all three are collinear: the area is zero
Degenerate(verts) ==
    Area2(verts[1][1], verts[1][2], verts[2][1], verts[2][2],
          verts[3][1], verts[3][2]) = 0

BoxMissesFrame(verts, w, h) ==
    LET bb == triangle_bunding_box(verts)
    IN  \/ bb[2][1] < 0
        \/ bb[2][2] < 0
        \/ bb[1][1] >= Scale * w
        \/ bb[1][2] >= Scale * h

\* C8: for any vertex coordinates, negative ones and ones beyond the frame
\* buffer included, fill_triangle reads and writes only cells with
\* 0 <= x < width and 0 <= y < height and never indexes outside the
\* buffers; a triangle whose bounding box does not meet the frame buffer
\* leaves both buffers unchanged and invokes no fragment.
C8_FillTriangleStaysInFrame ==
    IsTri =>
        /\ ~last.panicked
        /\ \A p \in last.touched :
              0 <= p[1] /\ p[1] < width /\ 0 <= p[2] /\ p[2] < height
        /\ BoxMissesFrame(last.verts, width, height) => Unchanged

\* a triangle that reaches from left of the frame buffer to beyond its far
\* edges and covers pixels
C8_Witness ==
    /\ IsTri
    /\ triangle_bunding_box(last.verts)[1][1] < 0
    /\ triangle_bunding_box(last.verts)[2][1] > Scale * width
    /\ triangle_bunding_box(last.verts)[2][2] > Scale * height
    /\ last.touched # {}

(***************************************************************************)
(* The end-to-end scene: the triangle (0,0,1), (10,0,1), (0,10,1) drawn    *)
(* with the white shader into a SceneSize x SceneSize frame that was just  *)
(* filled.  Here fill_triangle runs one pixel of its loops per step.       *)
(***************************************************************************)
SceneSize == 20

SceneTriangle == << <<0, 0, 1>>, <<Scale * 10, 0, 1>>, <<0, Scale * 10, 1>> >>

InitScene ==
    /\ InitRenderer(SceneSize, SceneSize)
    /\ scan = IdleScan
    /\ clip = IdleClip
    /\ bary_in = <<>>
    /\ bary_out = <<>>
    /\ ray = IdleRay
    /\ ppm = IdlePpm
    /\ obj = IdleObj
    /\ call = IdleCall

SceneFill ==
    /\ last.op = "new"
    /\ FillWith(FillColours)

\* fill_triangle is entered: lines 63-67
SceneBegin ==
    /\ last.op = "fill"
    /\ ~scan.active
    /\ scan' = [active |-> TRUE, verts |-> SceneTriangle, shader |-> "white",
                pixels |-> ScanOrder(ClampedBox(SceneTriangle, width, height)),
                k |-> 1, buffer0 |-> buffer, z0 |-> z_buffer,
                log |-> <<>>, touched |-> {}, panicked |-> FALSE]
    /\ UNCHANGED <<width, height, buffer, z_buffer, last, ntri, seen,
                   bary_in, bary_out, clip,
                   ray, ppm, obj, call>>

\* one turn of the inner loop: lines 69-99
SceneStep ==
    /\ scan.active
    /\ scan.k <= Len(scan.pixels)
    /\ LET st == FillPixel([buffer |-> buffer, z_buffer |-> z_buffer,
                            log |-> scan.log, touched |-> scan.touched,
                            panicked |-> scan.panicked],
                           scan.pixels[scan.k][1], scan.pixels[scan.k][2],
                           scan.verts, scan.shader, width)
       IN  /\ buffer' = st.buffer
           /\ z_buffer' = st.z_buffer
           /\ scan' = [scan EXCEPT !.k = @ + 1, !.log = st.log,
                                   !.touched = st.touched,
                                   !.panicked = st.panicked]
    /\ UNCHANGED <<width, height, last, ntri, seen, bary_in, bary_out, clip,
                   ray, ppm, obj, call>>

\* the loops are done: fill_triangle returns
SceneEnd ==
    /\ scan.active
    /\ scan.k > Len(scan.pixels)
    /\ last' = [op |-> "fill_triangle", verts |-> scan.verts,
                shader |-> scan.shader, buffer0 |-> scan.buffer0,
                z0 |-> scan.z0, seen0 |-> seen, log |-> scan.log,
                touched |-> scan.touched, panicked |-> scan.panicked]
    /\ seen' = seen \cup { p[1] + p[2] * width : p \in scan.touched }
    /\ ntri' = ntri + 1
    /\ scan' = IdleScan
    /\ UNCHANGED <<width, height, buffer, z_buffer, bary_in, bary_out, clip,
                   ray, ppm, obj, call>>

NextScene == SceneFill \/ SceneBegin \/ SceneStep \/ SceneEnd

SpecScene == InitScene /\ [][NextScene]_vars

\* the centre of pixel (x, y) has all three weights >= 0 in the triangle
CentreInTriangle(x, y, verts) ==
    InClosed(Scale * x + 1, Scale * y + 1,
             verts[1][1], verts[1][2], verts[2][1], verts[2][2],
             verts[3][1], verts[3][2])

\* C5: drawing the triangle (0,0,1), (10,0,1), (0,10,1) with the white
\* shader into the just filled 20 x 20 frame paints exactly the pixels whose
\* centres have all three weights >= 0 and leaves every other pixel at the
\* fill colour.
C5_SceneCoverage ==
    last.op = "fill_triangle" =>
        \A x \in 0 .. (width - 1), y \in 0 .. (height - 1) :
            IF CentreInTriangle(x, y, last.verts)
            THEN buffer[x + y * width] = White
            ELSE buffer[x + y * width] = last.buffer0[x + y * width]

\* the finished scene: a pixel with its centre on the long edge is white,
\* its neighbour across the edge shows the fill colour
C5_Witness ==
    /\ last.op = "fill_triangle"
    /\ width = SceneSize
    /\ last.verts = SceneTriangle
    /\ buffer[4 + 5 * width] = White
    /\ buffer[5 + 5 * width] \in FillColours
    /\ buffer[0] = White
    /\ buffer[width * height - 1] \in FillColours

(***************************************************************************)
(* f32 arithmetic, as box_clip uses it: a value is sg * m * 2^e with       *)
(* m = 0 or 2^23 <= m < 2^24, and +, -, * and / round to the nearest       *)
(* value, ties to even.  A result carries the flag inexact, set when the   *)
(* operation rounded.  Infinities, NaN and subnormals are not modelled.    *)
(***************************************************************************)
F32Bits == 24

F32Zero == [sg |-> 1, m |-> 0, e |-> 0]

RECURSIVE BitLen(_)
BitLen(n) == IF n = 0 THEN 0 ELSE 1 + BitLen(n \div 2)

\* the f32 nearest to sg * (n + f) * 2^e, where 0 <= f < 1 and f # 0 iff
\* sticky; n has more than F32Bits + 1 bits whenever sticky is set
RoundPack(sg, n, e, sticky) ==
    IF n = 0 THEN [v |-> F32Zero, inexact |-> sticky]
    ELSE
      LET len == BitLen(n) IN
      IF len <= F32Bits
      THEN [v |-> [sg |-> sg, m |-> n * 2^(F32Bits - len), e |-> e - (F32Bits - len)],
            inexact |-> sticky]
      ELSE
        LET k == len - F32Bits
            q == n \div 2^k
            r == n % 2^k
            half == 2^(k - 1)
            up == r > half \/ (r = half /\ (sticky \/ q % 2 = 1))
            m1 == IF up THEN q + 1 ELSE q
        IN  [v |-> IF m1 = 2^F32Bits
                   THEN [sg |-> sg, m |-> 2^(F32Bits - 1), e |-> e + k + 1]
                   ELSE [sg |-> sg, m |-> m1, e |-> e + k],
             inexact |-> r # 0 \/ sticky]

\* an integer as f32
f32_from(k) == RoundPack(IF k < 0 THEN -1 ELSE 1, Abs(k), 0, FALSE).v

f32_neg(a) == IF a.m = 0 THEN a ELSE [a EXCEPT !.sg = -a.sg]

\* a < b
f32_lt(a, b) ==
    LET BelowMag(x, y) == x.e < y.e \/ (x.e = y.e /\ x.m < y.m)
    IN  IF a.m = 0 THEN b.m # 0 /\ b.sg = 1
        ELSE IF b.m = 0 THEN a.sg = -1
        ELSE IF a.sg # b.sg THEN a.sg = -1
        ELSE IF a.sg = 1 THEN BelowMag(a, b)
        ELSE BelowMag(b, a)

f32_le(a, b) == ~f32_lt(b, a)

\* a + b
f32_add(a, b) ==
    IF a.m = 0 THEN [v |-> b, inexact |-> FALSE]
    ELSE IF b.m = 0 THEN [v |-> a, inexact |-> FALSE]
    ELSE
      LET swap == a.e < b.e \/ (a.e = b.e /\ a.m < b.m)
          big == IF swap THEN b ELSE a
          small == IF swap THEN a ELSE b
          s == big.e - small.e
          A == big.m * 64
          B0 == small.m * 64
          B == IF s > 30 THEN 0 ELSE B0 \div 2^s
          lost == IF s > 30 THEN TRUE ELSE B0 % 2^s # 0
      IN  IF big.sg = small.sg
          THEN RoundPack(big.sg, A + B, big.e - 6, lost)
          ELSE IF A = B /\ ~lost
          THEN [v |-> F32Zero, inexact |-> FALSE]
          ELSE RoundPack(big.sg, IF lost THEN A - B - 1 ELSE A - B, big.e - 6, lost)

\* a - b
f32_sub(a, b) == f32_add(a, f32_neg(b))

\* a * b
f32_mul(a, b) ==
    IF a.m = 0 \/ b.m = 0 THEN [v |-> F32Zero, inexact |-> FALSE]
    ELSE
      LET H == 2^(F32Bits \div 2)
          W == 2^F32Bits
          h1 == a.m \div H
          l1 == a.m % H
          h2 == b.m \div H
          l2 == b.m % H
          mid == h1 * l2 + l1 * h2
          low == (mid % H) * H + l1 * l2
          high == h1 * h2 + (mid \div H) + (low \div W)
          rest == low % W
      IN  RoundPack(a.sg * b.sg, high * 64 + (rest \div 2^18), a.e + b.e + 18,
                    rest % 2^18 # 0)

\* a / b for b # 0
f32_div(a, b) ==
    IF a.m = 0 THEN [v |-> F32Zero, inexact |-> FALSE]
    ELSE
      LET q1 == (a.m * 128) \div b.m
          r1 == (a.m * 128) % b.m
          q2 == (r1 * 128) \div b.m
          r2 == (r1 * 128) % b.m
          q3 == (r2 * 128) \div b.m
          r3 == (r2 * 128) % b.m
          q4 == (r3 * 128) \div b.m
          r4 == (r3 * 128) % b.m
      IN  RoundPack(a.sg * b.sg, ((q1 * 128 + q2) * 128 + q3) * 128 + q4,
                    a.e - b.e - 28, r4 # 0)

\* the exact value of an f32 of small magnitude
f32_exact(a) == IF a.e >= 0 THEN Rat(a.sg * a.m * 2^a.e, 1)
                ELSE Rat(a.sg * a.m, 2^(-a.e))

(***************************************************************************)
(* geometry.rs: Line2D::box_clip (Cohen-Sutherland).  An outcode is the    *)
(* number the code builds from the bits LEFT, RIGHT, BOTTOM and TOP.       *)
(***************************************************************************)
INSIDE == 0
LEFT == 1
RIGHT == 2
BOTTOM == 4
TOP == 8

HasBit(code, bit) == (code \div bit) % 2 = 1

\* a | b and a & b on outcodes
BitOr(a, b) ==
    LET or(bit) == IF HasBit(a, bit) \/ HasBit(b, bit) THEN bit ELSE 0
    IN  or(LEFT) + or(RIGHT) + or(BOTTOM) + or(TOP)

BitAnd(a, b) ==
    LET and(bit) == IF HasBit(a, bit) /\ HasBit(b, bit) THEN bit ELSE 0
    IN  and(LEFT) + and(RIGHT) + and(BOTTOM) + and(TOP)

\* a mutant: the test against x_max is forgotten
outcode_noright(x, y, r) ==
    BitOr(IF f32_lt(x, r.x_min) THEN LEFT ELSE INSIDE,
          IF f32_lt(y, r.y_min) THEN BOTTOM
          ELSE IF f32_lt(r.y_max, y) THEN TOP ELSE INSIDE)

\* a mutant: a point on the boundary of the rectangle counts as outside
outcode_strict(x, y, r) ==
    BitOr(IF f32_le(x, r.x_min) THEN LEFT
          ELSE IF f32_le(r.x_max, x) THEN RIGHT ELSE INSIDE,
          IF f32_le(y, r.y_min) THEN BOTTOM
          ELSE IF f32_le(r.y_max, y) THEN TOP ELSE INSIDE)

\* lines 33-46: the closure outcode
outcode(x, y, r) ==
    BitOr(IF f32_lt(x, r.x_min) THEN LEFT
          ELSE IF f32_lt(r.x_max, x) THEN RIGHT ELSE INSIDE,
          IF f32_lt(y, r.y_min) THEN BOTTOM
          ELSE IF f32_lt(r.y_max, y) THEN TOP ELSE INSIDE)

\* lines 15-20: the rectangle is degenerate
RectDegenerate(r) == f32_lt(r.x_max, r.x_min) \/ f32_lt(r.y_max, r.y_min)

\* line 53
BothInside(cs, ce) == BitOr(cs, ce) = 0

\* a mutant: a segment with both ends outside is rejected
TriviallyOutside_bothout(cs, ce) == cs # 0 /\ ce # 0

\* a mutant: no segment is rejected
TriviallyOutside_never(cs, ce) == FALSE

\* line 56
TriviallyOutside(cs, ce) == BitAnd(cs, ce) # 0

\* a + (bound - b) / d * dd, as lines 77, 81, 85 and 89 compute it
Along(a, bound, b, d, dd) ==
    LET t1 == f32_sub(bound, b)
        t2 == f32_div(t1.v, d)
        t3 == f32_mul(t2.v, dd)
        t4 == f32_add(a, t3.v)
    IN  [v |-> t4.v,
         inexact |-> t1.inexact \/ t2.inexact \/ t3.inexact \/ t4.inexact]

\* lines 61-93: the intersection point for the end with outcode oc, or
\* "divzero" when the divisor is 0, or "panic" when no bit of oc is set
Intersection(line, r, oc) ==
    LET dx == f32_sub(line.x1, line.x0)
        dy == f32_sub(line.y1, line.y0)
        AtY(y) == LET x == Along(line.x0, y, line.y0, dy.v, dx.v)
                  IN  [kind |-> "point", x |-> x.v, y |-> y,
                       inexact |-> dx.inexact \/ dy.inexact \/ x.inexact]
        AtX(x) == LET y == Along(line.y0, x, line.x0, dx.v, dy.v)
                  IN  [kind |-> "point", x |-> x, y |-> y.v,
                       inexact |-> dx.inexact \/ dy.inexact \/ y.inexact]
        DivZero == [kind |-> "divzero"]
    IN  CASE HasBit(oc, TOP) -> IF dy.v.m = 0 THEN DivZero ELSE AtY(r.y_max)
          [] HasBit(oc, BOTTOM) -> IF dy.v.m = 0 THEN DivZero ELSE AtY(r.y_min)
          [] HasBit(oc, RIGHT) -> IF dx.v.m = 0 THEN DivZero ELSE AtX(r.x_max)
          [] HasBit(oc, LEFT) -> IF dx.v.m = 0 THEN DivZero ELSE AtX(r.x_min)
          [] OTHER -> [kind |-> "panic"]

\* the coordinates of the model: -ClipMax .. 2 * ClipMax for the ends of the
\* segment, 0 .. ClipMax for the sides of the rectangle
ClipMax == 3

ClipCoords == -ClipMax .. 2 * ClipMax

ClipLines ==
    { [x0 |-> f32_from(a), y0 |-> f32_from(b), x1 |-> f32_from(c), y1 |-> f32_from(d)] :
        a \in ClipCoords, b \in ClipCoords, c \in ClipCoords, d \in ClipCoords }

ClipRects ==
    { [x_min |-> f32_from(r[1]), y_min |-> f32_from(r[2]),
       x_max |-> f32_from(r[3]), y_max |-> f32_from(r[4])] :
        r \in { <<0, 0, ClipMax - 1, ClipMax - 1>>,
                <<0, 1, ClipMax, 1>>,
                <<1, 0, 0, ClipMax>>,
                <<0, 1, ClipMax, 0>> } }

\* self.box_clip(x_min, y_min, x_max, y_max) is called
InitClip ==
    /\ InitRenderer(Width, Height)
    /\ scan = IdleScan
    /\ bary_in = <<>>
    /\ bary_out = <<>>
    /\ ray = IdleRay
    /\ ppm = IdlePpm
    /\ obj = IdleObj
    /\ call = IdleCall
    /\ \E l \in ClipLines, r \in ClipRects :
          clip = [st |-> "call", self |-> l, rect |-> r, line |-> l,
                  outcode_start |-> 0, outcode_end |-> 0, iters |-> 0,
                  inexact |-> FALSE, calls |-> 1, first |-> l]

\* lines 15-51: the degenerate rectangle returns None, otherwise the loop is
\* entered with the outcodes of the two ends
ClipEnter ==
    /\ clip.st = "call"
    /\ clip' = IF RectDegenerate(clip.rect)
               THEN [clip EXCEPT !.st = "none"]
               ELSE [clip EXCEPT
                       !.st = "loop",
                       !.outcode_start = outcode(clip.self.x0, clip.self.y0, clip.rect),
                       !.outcode_end = outcode(clip.self.x1, clip.self.y1, clip.rect)]
    /\ UNCHANGED <<width, height, buffer, z_buffer, last, ntri, seen, scan,
                   bary_in, bary_out,
                   ray, ppm, obj, call>>

\* the count of replacements, iters, is kept up to MaxIters
MaxIters == 8

\* lines 97-105: the end whose outcode is outcode_out moves to p
Replace(c, outcode_out, p) ==
    IF c.outcode_start = outcode_out
    THEN [c EXCEPT !.outcode_start = outcode(p.x, p.y, c.rect),
                   !.line = [@ EXCEPT !.x0 = p.x, !.y0 = p.y],
                   !.iters = Min2(@ + 1, MaxIters),
                   !.inexact = @ \/ p.inexact]
    ELSE [c EXCEPT !.outcode_end = outcode(p.x, p.y, c.rect),
                   !.line = [@ EXCEPT !.x1 = p.x, !.y1 = p.y],
                   !.iters = Min2(@ + 1, MaxIters),
                   !.inexact = @ \/ p.inexact]

\* lines 52-106: one turn of the loop
ClipIterate(c) ==
    IF BothInside(c.outcode_start, c.outcode_end)
    THEN [c EXCEPT !.st = "some"]
    ELSE IF TriviallyOutside(c.outcode_start, c.outcode_end)
    THEN [c EXCEPT !.st = "none"]
    ELSE LET outcode_out == Max2(c.outcode_start, c.outcode_end)
             p == Intersection(c.line, c.rect, outcode_out)
         IN  IF p.kind # "point"
             THEN [c EXCEPT !.st = p.kind]
             ELSE Replace(c, outcode_out, p)

ClipStep ==
    /\ clip.st = "loop"
    /\ clip' = ClipIterate(clip)
    /\ UNCHANGED <<width, height, buffer, z_buffer, last, ntri, seen, scan,
                   bary_in, bary_out,
                   ray, ppm, obj, call>>

NextClip == ClipEnter \/ ClipStep

SpecClip == InitClip /\ [][NextClip]_vars

(***************************************************************************)
(* Claims about box_clip.                                                  *)
(***************************************************************************)
ClipReturned == clip.st \in {"some", "none"}

PointInRect(x, y, r) ==
    /\ f32_le(r.x_min, x) /\ f32_le(x, r.x_max)
    /\ f32_le(r.y_min, y) /\ f32_le(y, r.y_max)

RMax(a, b) == IF RLt(a, b) THEN b ELSE a
RMin(a, b) == IF RLt(a, b) THEN a ELSE b

\* the parameters t in [0, 1] with lo <= a + t * d <= hi, as an interval
\* <<from, to>> (empty when to < from)
Span(a, d, lo, hi) ==
    IF d[1] = 0
    THEN IF RLe(lo, a) /\ RLe(a, hi) THEN <<RInt(0), RInt(1)>>
                                     ELSE <<RInt(1), RInt(0)>>
    ELSE IF d[1] > 0
    THEN <<RDiv(RSub(lo, a), d), RDiv(RSub(hi, a), d)>>
    ELSE <<RDiv(RSub(hi, a), d), RDiv(RSub(lo, a), d)>>

\* some point of the segment l lies in the rectangle r, in exact arithmetic
SegmentMeetsRect(l, r) ==
    LET x0 == f32_exact(l.x0)
        y0 == f32_exact(l.y0)
        sx == Span(x0, RSub(f32_exact(l.x1), x0),
                   f32_exact(r.x_min), f32_exact(r.x_max))
        sy == Span(y0, RSub(f32_exact(l.y1), y0),
                   f32_exact(r.y_min), f32_exact(r.y_max))
        from == RMax(RInt(0), RMax(sx[1], sy[1]))
        to == RMin(RInt(1), RMin(sx[2], sy[2]))
    IN  RLe(from, to)

NoneIffOutside ==
    clip.st = "none" <=>
        (RectDegenerate(clip.rect) \/ ~SegmentMeetsRect(clip.self, clip.rect))

ClipAgain ==
    /\ clip.st = "some"
    /\ clip.calls = 1
    /\ clip' = [clip EXCEPT !.st = "call", !.self = clip.line,
                            !.first = clip.line, !.iters = 0, !.calls = 2]
    /\ UNCHANGED <<width, height, buffer, z_buffer, last, ntri, seen, scan,
                   bary_in, bary_out,
                   ray, ppm, obj, call>>

NextClipTwice == ClipEnter \/ ClipStep \/ ClipAgain

SpecClipTwice == InitClip /\ [][NextClipTwice]_vars

ClipEnded == clip.st \notin {"call", "loop"}

SelfInsideRect ==
    /\ PointInRect(clip.self.x0, clip.self.y0, clip.rect)
    /\ PointInRect(clip.self.x1, clip.self.y1, clip.rect)

\* C11: a segment with both ends inside the rectangle is returned unchanged,
\* without a clipping step; and box_clip applied to the Some(line) of an
\* earlier call with the same rectangle returns that line unchanged.
C11_InsideUnchangedAndIdempotent ==
    /\ ClipEnded /\ SelfInsideRect
          => clip.st = "some" /\ clip.line = clip.self /\ clip.iters = 0
    /\ ClipEnded /\ clip.calls = 2
          => clip.st = "some" /\ clip.line = clip.first /\ clip.iters = 0

\* the second call returned, for a line the first call had clipped with a
\* rounded intersection
C11_Witness ==
    /\ clip.calls = 2
    /\ clip.st = "some"
    /\ clip.inexact
    /\ clip.line = clip.first

\* the loop is about to replace an end of the line
ClipMustCut ==
    /\ clip.st = "loop"
    /\ ~BothInside(clip.outcode_start, clip.outcode_end)
    /\ ~TriviallyOutside(clip.outcode_start, clip.outcode_end)

\* C12: in every turn of the loop that replaces an end, the branch taken
\* divides by a nonzero dx or dy, and the panic branch is never taken.
C12_DivisorNonzeroNoPanic ==
    /\ clip.st \notin {"divzero", "panic"}
    /\ ClipMustCut =>
          Intersection(clip.line, clip.rect,
                       Max2(clip.outcode_start, clip.outcode_end)).kind = "point"

\* a vertical segment, already cut at the top of the rectangle, is cut at the
\* bottom: dx is 0, but the branch divides by dy
C12_Witness ==
    /\ ClipMustCut
    /\ HasBit(Max2(clip.outcode_start, clip.outcode_end), BOTTOM)
    /\ f32_sub(clip.line.x1, clip.line.x0).v.m = 0
    /\ f32_sub(clip.line.y1, clip.line.y0).v.m # 0
    /\ clip.iters >= 1

(***************************************************************************)
(* geometry.rs: Ray, the Bresenham line iterator.  Its fields are i32: an  *)
(* operation whose result does not fit (a panic in a debug build, a        *)
(* wrapped value in a release build) ends the run in the state "overflow". *)
(***************************************************************************)
I32Max == 2147483647
I32Min == -I32Max - 1

\* a + b and a - b do not fit in an i32
AddOverflows(a, b) ==
    \/ b > 0 /\ a > I32Max - b
    \/ b < 0 /\ a < I32Min - b

SubOverflows(a, b) ==
    \/ b < 0 /\ a > I32Max + b
    \/ b > 0 /\ a < I32Min + b

\* a mutant: the iterator always steps forwards
StepSign_forward(a0, a1) == 1

\* lines 128-129: sx and sy
StepSign(a0, a1) == IF a1 < a0 THEN -1 ELSE 1

\* a mutant: the iterator always takes x as the major axis
MajorIsX_always(dx, dy) == TRUE

\* line 140
MajorIsX(dx, dy) == dy < dx

\* lines 126-165: Ray::new
Ray_new(x0, y0, x1, y1) ==
    IF \/ SubOverflows(x1, x0) \/ SubOverflows(y1, y0)
       \/ x1 - x0 = I32Min \/ y1 - y0 = I32Min
    THEN [st |-> "overflow", x0 |-> x0, y0 |-> y0, x1 |-> x1, y1 |-> y1]
    ELSE
      LET dx == Abs(x1 - x0)
          dy == Abs(y1 - y0)
          xmajor == MajorIsX(dx, dy)
      IN  [st |-> "run", x0 |-> x0, y0 |-> y0, x1 |-> x1, y1 |-> y1,
           reached |-> IF xmajor THEN x0 = x1 ELSE y0 = y1,
           sx |-> StepSign(x0, x1), sy |-> StepSign(y0, y1),
           dx |-> dx, dy |-> dy,
           error |-> IF xmajor THEN -dx ELSE -dy,
           x |-> x0, y |-> y0,
           next |-> IF xmajor THEN "iter_x" ELSE "iter_y",
           out |-> <<>>]

\* lines 169-194: iter_x is Iterate(r, "x"), iter_y is Iterate(r, "y"); the
\* returned coordinate is appended to out
Iterate(r, major) ==
    LET dmajor == IF major = "x" THEN r.dx ELSE r.dy
        dminor == IF major = "x" THEN r.dy ELSE r.dx
        Overflow == [r EXCEPT !.st = "overflow"]
    IN  IF AddOverflows(dminor, dminor) \/ AddOverflows(r.error, dminor + dminor)
        THEN Overflow
        ELSE
          LET e1 == r.error + dminor + dminor
              turn == e1 >= 0
          IN  IF turn /\ (\/ AddOverflows(dmajor, dmajor)
                          \/ SubOverflows(e1, dmajor + dmajor)
                          \/ AddOverflows(IF major = "x" THEN r.y ELSE r.x,
                                          IF major = "x" THEN r.sy ELSE r.sx))
              THEN Overflow
              ELSE IF AddOverflows(IF major = "x" THEN r.x ELSE r.y,
                                   IF major = "x" THEN r.sx ELSE r.sy)
              THEN Overflow
              ELSE
                LET x2 == IF major = "x" THEN r.x + r.sx
                          ELSE IF turn THEN r.x + r.sx ELSE r.x
                    y2 == IF major = "y" THEN r.y + r.sy
                          ELSE IF turn THEN r.y + r.sy ELSE r.y
                IN  [r EXCEPT !.out = Append(@, <<r.x, r.y>>),
                              !.error = IF turn THEN e1 - (dmajor + dmajor) ELSE e1,
                              !.x = x2,
                              !.y = y2,
                              !.reached = IF major = "x" THEN @ \/ x2 = r.x1
                                          ELSE @ \/ y2 = r.y1]

\* lines 166-168
next_xy(r) == IF r.next = "iter_x" THEN Iterate(r, "x") ELSE Iterate(r, "y")

\* the end points of the model: -RayMax .. RayMax in both coordinates, and
\* three lines at the limits of i32
RayMax == 3

RayCoords == -RayMax .. RayMax

RayLines ==
    { <<a, b, c, d>> : a \in RayCoords, b \in RayCoords, c \in RayCoords, d \in RayCoords }
    \cup { <<0, 0, 1073741824 + RayMax, 1073741824 + RayMax>>,
           <<I32Min, 0, I32Max, 0>>,
           <<0, 0, 0, I32Min>> }

InitRay ==
    /\ InitRenderer(Width, Height)
    /\ scan = IdleScan
    /\ bary_in = <<>>
    /\ bary_out = <<>>
    /\ clip = IdleClip
    /\ ppm = IdlePpm
    /\ obj = IdleObj
    /\ call = IdleCall
    /\ \E l \in RayLines :
          ray = [st |-> "new", x0 |-> l[1], y0 |-> l[2], x1 |-> l[3], y1 |-> l[4]]

\* Ray::new(x0, y0, x1, y1)
RayNew ==
    /\ ray.st = "new"
    /\ ray' = Ray_new(ray.x0, ray.y0, ray.x1, ray.y1)
    /\ UNCHANGED <<width, height, buffer, z_buffer, last, ntri, seen, scan,
                   bary_in, bary_out, clip, ppm, obj, call>>

\* renderer.rs 57-58: while !ray.reached { ray.next_xy() }
RayNext ==
    /\ ray.st = "run"
    /\ ~ray.reached
    /\ ray' = next_xy(ray)
    /\ UNCHANGED <<width, height, buffer, z_buffer, last, ntri, seen, scan,
                   bary_in, bary_out, clip, ppm, obj, call>>

NextRay == RayNew \/ RayNext

SpecRay == InitRay /\ [][NextRay]_vars

(***************************************************************************)
(* Claims about Ray.                                                       *)
(***************************************************************************)
\* the caller's loop has ended: the flag reached is set
RayDone == ray.st = "run" /\ ray.reached

RayStart == <<ray.x0, ray.y0>>
RayEnd == <<ray.x1, ray.y1>>

\* max(|x1 - x0|, |y1 - y0|), from the end points
MajorDelta == Max2(Abs(ray.x1 - ray.x0), Abs(ray.y1 - ray.y0))

RaySmall ==
    /\ ray.x0 \in RayCoords /\ ray.y0 \in RayCoords
    /\ ray.x1 \in RayCoords /\ ray.y1 \in RayCoords

RayPath == ray.out \o <<(<<ray.x, ray.y>>)>>

Byte == 256

\* the number n < 2^31 as a sequence of len bytes
RECURSIVE Bytes(_, _)
Bytes(n, len) == IF len = 0 THEN <<>> ELSE <<n % Byte>> \o Bytes(n \div Byte, len - 1)

\* the sum of a[i] * b[j] over i + j = k + 1 (the column k of the product)
Column(a, b, k) ==
    LET RECURSIVE Sum(_)
        Sum(i) == IF i > Len(a) THEN 0
                  ELSE (IF k + 1 - i \in 1..Len(b) THEN a[i] * b[k + 1 - i] ELSE 0)
                       + Sum(i + 1)
    IN  Sum(1)

\* the product of a and b, as Len(a) + Len(b) bytes
NatMul(a, b) ==
    LET RECURSIVE Carry(_, _)
        Carry(k, c) == IF k > Len(a) + Len(b) THEN <<>>
                       ELSE LET t == Column(a, b, k) + c
                            IN  <<t % Byte>> \o Carry(k + 1, t \div Byte)
    IN  Carry(1, 0)

\* the low 4 bytes of an 8-byte product: the wrapped u32
Low4(n) == SubSeq(n, 1, 4)

\* `as usize`: zero-extension to 8 bytes
AsUsize(n) == n \o <<0, 0, 0, 0>>

MulOverflows(a, b) == NatMul(a, b) # AsUsize(Low4(NatMul(a, b)))

\* line 19
SameLength(a, b) == a = b

\* lines 17-27; checks: the build has overflow checks on
Renderer_new(buffer_len, z_buffer_len, w, h, checks) ==
    IF MulOverflows(w, h) /\ checks THEN "panic"
    ELSE IF AsUsize(Low4(NatMul(w, h))) # buffer_len THEN "panic"
    ELSE IF ~SameLength(z_buffer_len, buffer_len) THEN "panic"
    ELSE "renderer"

\* the widths and heights of the model: 0 .. NewMax, and 2^16, 2^16 + 1,
\* 2^31 and 2^32 - 1
NewMax == 3

NewSizes ==
    { Bytes(n, 4) : n \in 0..NewMax }
    \cup { <<0, 0, 1, 0>>, <<1, 0, 1, 0>>, <<0, 0, 0, 128>>, <<255, 255, 255, 255>> }

\* the lengths tried for a width and a height: the product, the wrapped
\* product, one more than it, and NewMax
NewLengths(w, h) ==
    { NatMul(w, h), AsUsize(Low4(NatMul(w, h))),
      Bytes(NewMax, 8) }

InitNew ==
    /\ InitRenderer(Width, Height)
    /\ scan = IdleScan
    /\ bary_in = <<>>
    /\ bary_out = <<>>
    /\ clip = IdleClip
    /\ ray = IdleRay
    /\ ppm = IdlePpm
    /\ obj = IdleObj
    /\ \E w \in NewSizes, h \in NewSizes :
         \E bl \in NewLengths(w, h), zl \in NewLengths(w, h) :
            call = [fn |-> "Renderer::new", width |-> w, height |-> h,
                    buffer_len |-> bl, z_buffer_len |-> zl, out |-> "pending"]

\* Renderer::new(buffer, z_buffer, width, height)
RendererNew ==
    /\ call.fn = "Renderer::new"
    /\ call.out = "pending"
    /\ \E checks \in BOOLEAN :
          call' = [call EXCEPT !.out = Renderer_new(call.buffer_len, call.z_buffer_len,
                                                    call.width, call.height, checks)]
    /\ UNCHANGED <<width, height, buffer, z_buffer, last, ntri, seen, scan,
                   bary_in, bary_out, clip, ray, ppm, obj>>

NextNew == RendererNew

SpecNew == InitNew /\ [][NextNew]_vars

\* C15: Renderer::new returns a Renderer only if the pixel buffer length is
\* the mathematical product width x height and the depth buffer has the same
\* length, also when the product does not fit in 32 bits.
C15_NewChecksSizes ==
    call.fn = "Renderer::new" /\ call.out = "renderer" =>
        /\ call.buffer_len = NatMul(call.width, call.height)
        /\ call.z_buffer_len = call.buffer_len

\* what holds of the code: a Renderer is returned only if the pixel buffer
\* length is the product wrapped to 32 bits and the depth buffer has the same
\* length; a product that fits is checked as the claim says
C15_NewChecksWrappedSize ==
    call.fn = "Renderer::new" /\ call.out = "renderer" =>
        /\ call.buffer_len = AsUsize(Low4(NatMul(call.width, call.height)))
        /\ call.z_buffer_len = call.buffer_len

\* 65536 x 65536 with two empty buffers is accepted
C15_Witness ==
    /\ call.fn = "Renderer::new"
    /\ call.out = "renderer"
    /\ MulOverflows(call.width, call.height)
    /\ call.buffer_len = Bytes(0, 8)

(***************************************************************************)
(* ppm.rs: save_buffer_to_ppm_file and load_ppm_file_to_buffer.  A file is *)
(* a sequence of bytes, a pixel the four bytes <<red, green, blue, alpha>>  *)
(* of the u32 (byte 0 first), text its ASCII codes.                        *)
(***************************************************************************)
Str_P6 == <<80, 54>>
Str_255 == <<50, 53, 53>>
Newline == 10
Space == 32
Whitespace == {9, 10, 11, 12, 13, 32}
DigitZero == 48
PlusSign == 43

\* "{}" of a u32
RECURSIVE Decimal(_)
Decimal(n) == IF n < 10 THEN <<DigitZero + n>>
              ELSE Decimal(n \div 10) \o <<DigitZero + (n % 10)>>

\* lines 20-24: the three bytes written for a pixel
PixelRgb(pixel) == <<pixel[1], pixel[2], pixel[3]>>

\* a mutant: the alpha byte of a loaded pixel is 0
PixelOfRgb_noalpha(rgb) == <<rgb[1], rgb[2], rgb[3], 0>>

\* lines 83-86: the pixel built from three bytes read
PixelOfRgb(rgb) == <<rgb[1], rgb[2], rgb[3], 255>>

\* lines 7-29: the bytes written to the file, or a panic when an index is
\* outside the buffer; buffer[i] of the code is buf[i + 1]
save_buffer_to_ppm_file(buf, w, h, stride) ==
    LET RECURSIVE Rows(_, _)
        Rows(x, y) ==
            IF y >= h THEN <<>>
            ELSE IF x >= w THEN Rows(0, y + 1)
            ELSE PixelRgb(buf[y * stride + x + 1]) \o Rows(x + 1, y)
    IN  IF \E y \in 0..(h - 1), x \in 0..(w - 1) : y * stride + x >= Len(buf)
        THEN [ok |-> FALSE]
        ELSE [ok |-> TRUE,
              bytes |-> Str_P6 \o <<Newline>> \o Decimal(w) \o <<Space>> \o Decimal(h)
                        \o <<Space>> \o Str_255 \o <<Newline>> \o Rows(0, 0)]

\* line 50: the bytes read_line returns at position pos: up to and including
\* the next newline, or up to the end of the file
read_line(file, pos) ==
    LET RECURSIVE Upto(_)
        Upto(i) == IF i > Len(file) THEN Len(file)
                   ELSE IF file[i] = Newline THEN i ELSE Upto(i + 1)
    IN  SubSeq(file, pos + 1, Upto(pos + 1))

\* read_line fails on a line that is not UTF-8; the bytes of the model
\* above 127 are 0xff, which no UTF-8 text holds
IsUtf8(line) == \A i \in 1..Len(line) : line[i] < 128

\* line 51: split_whitespace
split_whitespace(line) ==
    LET RECURSIVE Split(_, _)
        Split(i, word) ==
            IF i > Len(line)
            THEN IF word = <<>> THEN <<>> ELSE <<word>>
            ELSE IF line[i] \in Whitespace
            THEN (IF word = <<>> THEN <<>> ELSE <<word>>) \o Split(i + 1, <<>>)
            ELSE Split(i + 1, Append(word, line[i]))
    IN  Split(1, <<>>)

U32MaxDigits == <<4, 2, 9, 4, 9, 6, 7, 2, 9, 5>>

\* part.parse::<u32>(): Ok(v) for an optional + and decimal digits not above
\* u32::MAX, Err otherwise
parse_u32(part) ==
    LET digits == IF part # <<>> /\ part[1] = PlusSign THEN Tail(part) ELSE part
        DigitAt(i) == digits[i] - DigitZero
        RECURSIVE Strip(_)
        Strip(i) == IF i < Len(digits) /\ DigitAt(i) = 0 THEN Strip(i + 1) ELSE i
        first == Strip(1)
        count == Len(digits) - first + 1
        RECURSIVE Above(_)
        Above(i) == IF i > Len(digits) THEN FALSE
                    ELSE IF DigitAt(i) # U32MaxDigits[i - first + 1]
                    THEN DigitAt(i) > U32MaxDigits[i - first + 1]
                    ELSE Above(i + 1)
        RECURSIVE Value(_, _)
        Value(i, acc) == IF i > Len(digits) THEN acc ELSE Value(i + 1, acc * 10 + DigitAt(i))
    IN  IF digits = <<>> \/ \E i \in 1..Len(digits) : DigitAt(i) \notin 0..9
        THEN [ok |-> FALSE]
        ELSE IF count > 10 \/ (count = 10 /\ Above(first)) THEN [ok |-> FALSE]
        ELSE [ok |-> TRUE, v |-> Value(first, 0)]

\* lines 52-77: the tokens of one line, taken in turn from the i-th; l holds
\* now_reading, width, height and max_val
RECURSIVE TakeParts(_, _, _)
TakeParts(parts, i, l) ==
    IF i > Len(parts) \/ l.st = "panic" THEN l
    ELSE
      LET part == parts[i]
          n == parse_u32(part)
      IN  CASE l.now_reading = "MagicNumber" ->
                 IF part # Str_P6 THEN [l EXCEPT !.st = "panic"]
                 ELSE TakeParts(parts, i + 1, [l EXCEPT !.now_reading = "Width"])
            [] l.now_reading = "Width" ->
                 IF ~n.ok THEN [l EXCEPT !.st = "panic"]
                 ELSE TakeParts(parts, i + 1,
                                [l EXCEPT !.width = n.v, !.now_reading = "Height"])
            [] l.now_reading = "Height" ->
                 IF ~n.ok THEN [l EXCEPT !.st = "panic"]
                 ELSE TakeParts(parts, i + 1,
                                [l EXCEPT !.height = n.v, !.now_reading = "MaxVal"])
            [] l.now_reading = "MaxVal" ->
                 IF ~n.ok THEN [l EXCEPT !.st = "panic"]
                 ELSE TakeParts(parts, i + 1,
                                [l EXCEPT !.max_val = n.v, !.now_reading = "Data"])
            [] OTHER -> [l EXCEPT !.st = "panic"]

\* lines 48-78: one turn of the header loop.  At the end of the file
\* read_line returns no byte, the turn changes nothing and the loop turns
\* for ever: the state "hang"
ReadHeaderLine(l) ==
    LET line == read_line(l.file, l.pos)
    IN  IF ~IsUtf8(line) THEN [l EXCEPT !.st = "panic"]
        ELSE IF line = <<>> THEN [l EXCEPT !.st = "hang"]
        ELSE LET t == TakeParts(split_whitespace(line), 1,
                                [l EXCEPT !.pos = l.pos + Len(line)])
             IN  IF t.st # "panic" /\ t.now_reading = "Data"
                 THEN [t EXCEPT !.st = "data"]
                 ELSE t

\* lines 80-95: the pixels are read three bytes at a time to the end of the
\* file, and their number is compared with width * height
ReadData(l) ==
    LET RECURSIVE Pixels(_)
        Pixels(p) == IF p + 3 > Len(l.file) THEN <<>>
                     ELSE <<PixelOfRgb(SubSeq(l.file, p + 1, p + 3))>> \o Pixels(p + 3)
        loaded == Pixels(l.pos)
    IN  IF Len(loaded) # l.width * l.height
        THEN [l EXCEPT !.st = "panic"]
        ELSE [l EXCEPT !.st = "image", !.buffer = loaded]

\* line 41-47: the file is open and nothing is read yet
OpenPpm(file, src) ==
    [st |-> "header", file |-> file, pos |-> 0, now_reading |-> "MagicNumber",
     width |-> 0, height |-> 0, max_val |-> 0, buffer |-> <<>>, src |-> src]

\* the images of the round trip: sizes up to PpmMax x PpmMax with every
\* choice of pixels, and the sizes 10 x 1 and 1 x 12 with one pattern
PpmMax == 2

PpmPixels == { <<0, 0, 0, 255>>, <<10, 32, 255, 0>>, <<255, 13, 10, 128>> }

PpmPattern == <<(<<1, 2, 3, 4>>), (<<10, 32, 255, 0>>), (<<255, 13, 10, 128>>)>>

PpmImages(max) ==
    UNION { { [width |-> w, height |-> h, buffer |-> b] : b \in [1..(w * h) -> PpmPixels] } :
              w \in 0..max, h \in 0..max }
    \cup { [width |-> 10, height |-> 1, buffer |-> [i \in 1..10 |-> PpmPattern[1 + (i % 3)]]],
           [width |-> 1, height |-> 12, buffer |-> [i \in 1..12 |-> PpmPattern[1 + (i % 3)]]] }

InitPpm ==
    /\ InitRenderer(Width, Height)
    /\ scan = IdleScan
    /\ bary_in = <<>>
    /\ bary_out = <<>>
    /\ clip = IdleClip
    /\ ray = IdleRay
    /\ obj = IdleObj
    /\ call = IdleCall
    /\ \E img \in PpmImages(PpmMax) :
          /\ Len(img.buffer) = img.width * img.height
          /\ ppm = [st |-> "buffer", src |-> img]

\* save_buffer_to_ppm_file(buffer, width, height, width, path), then the
\* file is opened by load_ppm_file_to_buffer(path)
PpmSave ==
    /\ ppm.st = "buffer"
    /\ LET file == save_buffer_to_ppm_file(ppm.src.buffer, ppm.src.width,
                                           ppm.src.height, ppm.src.width)
       IN  ppm' = IF ~file.ok THEN [ppm EXCEPT !.st = "panic"]
                  ELSE OpenPpm(file.bytes, ppm.src)
    /\ UNCHANGED <<width, height, buffer, z_buffer, last, ntri, seen, scan,
                   bary_in, bary_out, clip, ray, obj, call>>

PpmReadHeader ==
    /\ ppm.st = "header"
    /\ ppm' = ReadHeaderLine(ppm)
    /\ UNCHANGED <<width, height, buffer, z_buffer, last, ntri, seen, scan,
                   bary_in, bary_out, clip, ray, obj, call>>

PpmReadData ==
    /\ ppm.st = "data"
    /\ ppm' = ReadData(ppm)
    /\ UNCHANGED <<width, height, buffer, z_buffer, last, ntri, seen, scan,
                   bary_in, bary_out, clip, ray, obj, call>>

NextPpm == PpmSave \/ PpmReadHeader \/ PpmReadData

SpecPpm == InitPpm /\ [][NextPpm]_vars

Header(magic, w, h, maxval) ==
    magic \o <<Newline>> \o w \o <<Space>> \o h \o <<Space>> \o maxval \o <<Newline>>

\* "1", "+1", "x", "-1", "1.0" and "4294967296"
NumberTokens ==
    { <<49>>, <<43, 49>>, <<120>>, <<45, 49>>, <<49, 46, 48>>,
      <<52, 50, 57, 52, 57, 54, 55, 50, 57, 54>> }

\* "P6", "P3" and "P66"
MagicTokens == { Str_P6, <<80, 51>>, <<80, 54, 54>> }

GoodFile == Header(Str_P6, <<49>>, <<49>>, Str_255) \o <<7, 8, 9>>

PpmFiles ==
    { Header(m, w, h, v) \o d :
        m \in MagicTokens, w \in NumberTokens, h \in {<<49>>, <<120>>, <<45, 49>>},
        v \in {Str_255, <<120>>}, d \in {<<>>, <<7, 8, 9>>} }
    \cup { SubSeq(GoodFile, 1, n) : n \in 0..Len(GoodFile) }
    \cup { Header(Str_P6, <<49>>, <<49>>, Str_255 \o <<Space, 49>>) \o <<7, 8, 9>>,
           <<80, 54, Newline, 255, Newline>> }

InitPpmLoad ==
    /\ InitRenderer(Width, Height)
    /\ scan = IdleScan
    /\ bary_in = <<>>
    /\ bary_out = <<>>
    /\ clip = IdleClip
    /\ ray = IdleRay
    /\ obj = IdleObj
    /\ call = IdleCall
    /\ \E file \in PpmFiles : ppm = OpenPpm(file, <<>>)

NextPpmLoad == PpmReadHeader \/ PpmReadData

SpecPpmLoad == InitPpmLoad /\ [][NextPpmLoad]_vars

\* the header of the file, read as a whole: its first four tokens
FileTokens == split_whitespace(SubSeq(ppm.file, 1, Len(ppm.file)))

\* decimal digits, after an optional +
IsNumber(token) ==
    LET digits == IF token # <<>> /\ token[1] = PlusSign THEN Tail(token) ELSE token
    IN  /\ digits # <<>>
        /\ \A i \in 1..Len(digits) : digits[i] \in 48..57

WrongMagic == Len(FileTokens) >= 1 /\ FileTokens[1] # Str_P6

WrongNumber == \E i \in 2..4 : Len(FileTokens) >= i /\ ~IsNumber(FileTokens[i])

CutShort == Len(FileTokens) < 4

PpmEnded == ppm.st \in {"image", "panic", "hang"}

\* C17: a first token other than "P6", a width, height or max value that is
\* no number, or a header cut short by the end of the file ends the load in a
\* failure: no Image is returned and the loader does not read for ever.
C17_MalformedHeaderFails ==
    (WrongMagic \/ WrongNumber \/ CutShort) =>
        ppm.st \notin {"image", "hang"}

\* what holds of the code: a wrong magic token or a wrong number among the
\* tokens read ends in a panic, and no malformed header gives an Image
C17_WrongTokenPanics ==
    /\ PpmEnded /\ (WrongMagic \/ WrongNumber) /\ ~CutShort => ppm.st = "panic"
    /\ (WrongMagic \/ WrongNumber \/ CutShort) => ppm.st # "image"

\* the file ends after "P6\n1 1": the header loop reads nothing, for ever
C17_Witness ==
    /\ ppm.st = "hang"
    /\ ppm.now_reading = "MaxVal"
    /\ ppm.pos = Len(ppm.file)
    /\ CutShort

(***************************************************************************)
(* model.rs: Model::new and the accessors vert, uv and normal_vert.  A     *)
(* file is a sequence of records already split into tokens: "v", "vt" and  *)
(* "vn" records (their floats do not matter here, so verts, tex_coord and  *)
(* norms are kept as their lengths) and "f" records of three               *)
(* vertex/uv/normal groups of 1-based indices.  An index is a usize: 0 - 1 *)
(* panics in a build with overflow checks and wraps to usize::MAX in one   *)
(* without; usize::MAX is written -1.                                      *)
(***************************************************************************)
UsizeMaxWrapped == -1

\* lines 75-77: index - 1 on usize; checks: the build has overflow checks on
MinusOne(index, checks) ==
    IF index = 0
    THEN IF checks THEN [ok |-> FALSE] ELSE [ok |-> TRUE, v |-> UsizeMaxWrapped]
    ELSE [ok |-> TRUE, v |-> index - 1]

\* lines 72-79: the three groups of a face record are pushed
RECURSIVE PushFace(_, _, _, _)
PushFace(m, groups, i, checks) ==
    IF i > 3 THEN m
    ELSE LET v == MinusOne(groups[i][1], checks)
             t == MinusOne(groups[i][2], checks)
             n == MinusOne(groups[i][3], checks)
         IN  IF ~v.ok \/ ~t.ok \/ ~n.ok THEN [m EXCEPT !.st = "panic"]
             ELSE PushFace([m EXCEPT !.facet_vrt = Append(@, v.v),
                                     !.facet_tex = Append(@, t.v),
                                     !.facet_nrm = Append(@, n.v)],
                           groups, i + 1, checks)

\* lines 49-81: one record of the file
TakeRecord(m, rec, checks) ==
    CASE rec.kind = "v" -> [m EXCEPT !.verts = @ + 1]
      [] rec.kind = "vn" -> [m EXCEPT !.norms = @ + 1]
      [] rec.kind = "vt" -> [m EXCEPT !.tex_coord = @ + 1]
      [] rec.kind = "f" -> PushFace(m, rec.groups, 1, checks)
      [] OTHER -> m

\* line 106-108
nfaces(m) == Len(m.facet_vrt) \div 3

\* vec[i] for a Vec of length len: a value, or the panic of the bounds check
Indexed(len, i) == IF i >= 0 /\ i < len THEN "value" ELSE "panic"

\* lines 109-117: vert, uv and normal_vert; facet[k] of the code is facet[k + 1]
Access(m, which, iface, nthvert) ==
    CASE which = "vert" -> Indexed(m.verts, m.facet_vrt[iface * 3 + nthvert + 1])
      [] which = "uv" -> Indexed(m.tex_coord, m.facet_tex[iface * 3 + nthvert + 1])
      [] which = "normal_vert" -> Indexed(m.norms, m.facet_nrm[iface * 3 + nthvert + 1])

\* the files of the model: up to ObjMax records; a face record has two groups
\* 1/1/1 and a third group with one index in 0 .. ObjMax and the others 1
ObjMax == 2

ObjRecords ==
    { [kind |-> k, groups |-> <<>>] : k \in {"v", "vt", "vn", "#"} }
    \cup { [kind |-> "f", groups |-> <<(<<1, 1, 1>>), (<<1, 1, 1>>), g>>] :
             g \in UNION { { <<i, 1, 1>>, <<1, i, 1>>, <<1, 1, i>> } : i \in 0..ObjMax } }

ObjFiles == UNION { [1..n -> ObjRecords] : n \in 0..ObjMax }

InitObj ==
    /\ InitRenderer(Width, Height)
    /\ scan = IdleScan
    /\ bary_in = <<>>
    /\ bary_out = <<>>
    /\ clip = IdleClip
    /\ ray = IdleRay
    /\ ppm = IdlePpm
    /\ call = IdleCall
    /\ \E file \in ObjFiles :
          obj = [st |-> "loading", file |-> file, line |-> 0,
                 verts |-> 0, tex_coord |-> 0, norms |-> 0,
                 facet_vrt |-> <<>>, facet_tex |-> <<>>, facet_nrm |-> <<>>,
                 access |-> "none"]

\* lines 44-82: the next record of the file
ObjRecord ==
    /\ obj.st = "loading"
    /\ obj.line < Len(obj.file)
    /\ \E checks \in BOOLEAN :
          obj' = TakeRecord([obj EXCEPT !.line = @ + 1], obj.file[obj.line + 1], checks)
    /\ UNCHANGED <<width, height, buffer, z_buffer, last, ntri, seen, scan,
                   bary_in, bary_out, clip, ray, ppm, call>>

\* lines 83-100: the file is read and the Model is returned
ObjReturn ==
    /\ obj.st = "loading"
    /\ obj.line = Len(obj.file)
    /\ obj' = [obj EXCEPT !.st = "model"]
    /\ UNCHANGED <<width, height, buffer, z_buffer, last, ntri, seen, scan,
                   bary_in, bary_out, clip, ray, ppm, call>>

\* model.vert(iface, nthvert), model.uv(..) or model.normal_vert(..) for a
\* face index below nfaces()
ObjAccess ==
    /\ obj.st = "model"
    /\ obj.access = "none"
    /\ \E which \in {"vert", "uv", "normal_vert"}, iface \in 0..(nfaces(obj) - 1),
          nthvert \in 0..2 :
          obj' = [obj EXCEPT !.access = Access(obj, which, iface, nthvert)]
    /\ UNCHANGED <<width, height, buffer, z_buffer, last, ntri, seen, scan,
                   bary_in, bary_out, clip, ray, ppm, call>>

NextObj == ObjRecord \/ ObjReturn \/ ObjAccess

SpecObj == InitObj /\ [][NextObj]_vars

AllInRange(facet, len) == \A k \in 1..Len(facet) : facet[k] >= 0 /\ facet[k] < len

\* C18: Model::new never returns a Model in which a face index is outside
\* the loaded positions, UVs or normals: an out-of-range reference, the
\* 1-based index 0 included, aborts the load.
C18_LoadRejectsBadIndex ==
    obj.st = "model" =>
        /\ AllInRange(obj.facet_vrt, obj.verts)
        /\ AllInRange(obj.facet_tex, obj.tex_coord)
        /\ AllInRange(obj.facet_nrm, obj.norms)

\* a Model was returned for a file with one position whose face names
\* position 2, and an accessor panicked on it
C18_Witness ==
    /\ obj.st = "model"
    /\ obj.verts = 1
    /\ nfaces(obj) = 1
    /\ obj.facet_vrt[3] = 1
    /\ obj.access = "panic"

(***************************************************************************)
(* model.rs: Model::diffuse and Model::normal_uv.  A map is its width, its *)
(* height and a buffer of width * height pixels; the pixel at an index is  *)
(* written as that index.  The UV components are f32.                      *)
(***************************************************************************)
\* x as usize for an f32 x: the integer part, 0 for a negative value
f32_as_usize(a) ==
    IF a.m = 0 \/ a.sg = -1 THEN 0
    ELSE IF a.e >= 0 THEN a.m * 2^a.e
    ELSE IF -a.e >= F32Bits THEN 0
    ELSE a.m \div 2^(-a.e)

\* lines 137 and 120: x = uv.x() * width as f32, then x as usize
MapColumn(u, w) == f32_as_usize(f32_mul(u, f32_from(w)).v)

\* lines 138 and 121: y = uv.y() * height as f32, then y as usize
MapRow(v, h) == f32_as_usize(f32_mul(v, f32_from(h)).v)

\* lines 139 and 122: x as usize + y as usize * width as usize
MapIndex(u, v, w, h) == MapColumn(u, w) + MapRow(v, h) * w

WhitePixel == "0xffffffff"

\* lines 135-144 (and the lookup of normal_uv, lines 119-122): the pixel of
\* the bound map, the panic of the bounds check of the buffer, or white
\* when no map is bound
diffuse(bound, w, h, u, v) ==
    IF ~bound THEN [st |-> "returned", pixel |-> WhitePixel]
    ELSE IF MapIndex(u, v, w, h) < w * h
    THEN [st |-> "returned", pixel |-> MapIndex(u, v, w, h)]
    ELSE [st |-> "panic", pixel |-> WhitePixel]

\* the maps of the model are 1 .. MapMax pixels wide and high; a UV
\* component is 0, 1/UvDen, .., 1, or the largest f32 below 1
MapMax == 3
UvDen == 4

F32One == f32_from(1)
BelowOne == [sg |-> 1, m |-> 2^F32Bits - 1, e |-> -F32Bits]
UvValues == { f32_div(f32_from(k), f32_from(UvDen)).v : k \in 0..UvDen } \cup {BelowOne}

InitDiffuse ==
    /\ InitRenderer(Width, Height)
    /\ scan = IdleScan
    /\ bary_in = <<>>
    /\ bary_out = <<>>
    /\ clip = IdleClip
    /\ ray = IdleRay
    /\ ppm = IdlePpm
    /\ obj = IdleObj
    /\ \E w \in 1..MapMax, h \in 1..MapMax, bound \in BOOLEAN :
          call = [fn |-> "load", bound |-> bound, w |-> w, h |-> h,
                  u |-> F32Zero, v |-> F32Zero, st |-> "ready", pixel |-> WhitePixel]

\* model.diffuse(&uv) or model.normal_uv(&uv)
Diffuse ==
    /\ call.st = "ready"
    /\ \E fn \in {"diffuse", "normal_uv"}, u \in UvValues, v \in UvValues :
          LET r == diffuse(call.bound, call.w, call.h, u, v)
          IN  call' = [call EXCEPT !.fn = fn, !.u = u, !.v = v,
                                   !.st = r.st, !.pixel = r.pixel]
    /\ UNCHANGED <<width, height, buffer, z_buffer, last, ntri, seen, scan,
                   bary_in, bary_out, clip, ray, ppm, obj>>

NextDiffuse == Diffuse

SpecDiffuse == InitDiffuse /\ [][NextDiffuse]_vars

DiffuseCalled == call.fn = "diffuse" /\ call.bound

InUnit(a) == f32_le(F32Zero, a) /\ f32_le(a, F32One)

\* C19: with a diffuse map bound, diffuse returns a pixel of the map for
\* every UV with both components in [0,1], u = 1 and v = 1 included: the
\* column is below the width, the row below the height and the buffer
\* index below width * height.
C19_DiffuseInRange ==
    DiffuseCalled /\ InUnit(call.u) /\ InUnit(call.v) =>
        /\ call.st = "returned"
        /\ MapColumn(call.u, call.w) < call.w
        /\ MapRow(call.v, call.h) < call.h
        /\ MapIndex(call.u, call.v, call.w, call.h) < call.w * call.h

\* the same with both components below 1
C19_DiffuseInRangeBelowOne ==
    DiffuseCalled /\ InUnit(call.u) /\ InUnit(call.v)
      /\ call.u # F32One /\ call.v # F32One =>
        /\ call.st = "returned"
        /\ MapColumn(call.u, call.w) < call.w
        /\ MapRow(call.v, call.h) < call.h
        /\ call.pixel = MapIndex(call.u, call.v, call.w, call.h)
        /\ call.pixel < call.w * call.h

\* diffuse was called with v = 1 on a 3 x 3 map and panicked
C19_Witness ==
    /\ DiffuseCalled
    /\ call.w = MapMax
    /\ call.h = MapMax
    /\ call.u = F32Zero
    /\ call.v = F32One
    /\ call.st = "panic"

(***************************************************************************)
(* The loop bounds of fill_triangle against the inside test, under SpecTri *)
(***************************************************************************)
FramePixels == { <<x, y>> : x \in 0 .. (width - 1), y \in 0 .. (height - 1) }

PassesInsideTest(p, verts) == Inside(Weights(p[1], p[2], verts))

\* the centre of pixel p lies on the left or the top edge of the bounding box
OnMinEdge(p, verts) ==
    LET bb == triangle_bunding_box(verts)
    IN  Scale * p[1] + 1 = bb[1][1] \/ Scale * p[2] + 1 = bb[1][2]

\* C20: the loop bounds of fill_triangle visit every pixel of the frame
\* buffer whose centre passes the inside test, also when a vertex coordinate
\* is a half-integer and a pixel centre lies on the edge of the bounding
\* box; the rounding skips no pixel whose centre is inside the triangle.
C20_LoopVisitsEveryInsidePixel ==
    IsTri =>
        \A p \in FramePixels :
            PassesInsideTest(p, last.verts) => p \in BoxPixels

\* the same for the pixels whose centre is not on the left or top edge of
\* the bounding box
C20_LoopVisitsInsidePixelsOffMinEdge ==
    IsTri =>
        \A p \in FramePixels :
            PassesInsideTest(p, last.verts) /\ ~OnMinEdge(p, last.verts)
                => p \in BoxPixels /\ buffer[p[1] + p[2] * width] = White

\* a triangle with the vertex (0.5, 0.5) as its top left corner: the centre
\* of pixel (0, 0) passes the inside test, the loops start at 1 and the
\* pixel keeps its colour, while pixel (1, 1) is painted
C20_Witness ==
    /\ IsTri
    /\ last.verts = << <<1, 1, 1>>, <<Scale * Width, 1, 1>>, <<1, Scale * Height, 1>> >>
    /\ PassesInsideTest(<<0, 0>>, last.verts)
    /\ <<0, 0>> \notin BoxPixels
    /\ buffer[0] = last.buffer0[0]

(***************************************************************************)
(* renderer.rs: Renderer::draw_line.  The end points are i32; they are     *)
(* converted to f32, clipped by box_clip against                           *)
(* [0, width - 0.1] x [0, height - 0.1], converted back, the end point is  *)
(* drawn and the Ray between them is pulled.  The call runs one turn of    *)
(* the clipping loop or one pull of the Ray per step.                      *)
(***************************************************************************)
\* the f32 nearest to 0.1: 13421773 * 2^-27
F32Tenth == [sg |-> 1, m |-> 13421773, e |-> -27]

\* x as i32 for an f32 x: the integer part, saturated at the limits of i32
f32_as_i32(a) ==
    IF a.m = 0 THEN 0
    ELSE IF a.e >= 8 THEN (IF a.sg = 1 THEN I32Max ELSE I32Min)
    ELSE IF a.e >= 0 THEN a.sg * a.m * 2^a.e
    ELSE IF -a.e >= F32Bits THEN 0
    ELSE a.sg * (a.m \div 2^(-a.e))

\* a mutant: the rectangle reaches to width and height
ScreenRect_full(w, h) ==
    [x_min |-> F32Zero, y_min |-> F32Zero,
     x_max |-> f32_from(w), y_max |-> f32_from(h)]

\* lines 44-49: the rectangle draw_line clips against
ScreenRect(w, h) ==
    [x_min |-> F32Zero, y_min |-> F32Zero,
     x_max |-> f32_sub(f32_from(w), F32Tenth).v,
     y_max |-> f32_sub(f32_from(h), F32Tenth).v]

\* lines 28-31: draw_pixel_unchecked(x as u32, y as u32, pixel) on the
\* renderer rd.  A negative coordinate becomes a u32 of 2^32 + x: then
\* y * stride + x overflows (a panic with overflow checks, the wrapped sum
\* without) or indexes beyond the buffer (a panic).
draw_pixel_unchecked(rd, x, y, pixel, checks) ==
    LET idx == y * rd.stride + x
        Panic == [rd EXCEPT !.panicked = TRUE,
                            !.written = @ \cup {<<x, y>>}]
    IN  IF (x < 0 \/ y < 0) /\ checks THEN Panic
        ELSE IF idx \notin DOMAIN rd.buffer THEN Panic
        ELSE [rd EXCEPT !.buffer[idx] = pixel,
                        !.written = @ \cup {<<x, y>>}]

\* the end points of the model: from LineMax before the frame to LineMax
\* beyond it, and lines that come from far away
LineMax == 2

LineXs == -LineMax .. (Width + 1 + LineMax)
LineYs == -LineMax .. (Height + LineMax)

FarLines ==
    { <<-I32Max, -I32Max, I32Max, I32Max>>,
      <<-100000, 1, 100000, 1>>,
      <<1, I32Max, 1, -I32Max>>,
      <<-1000001, -999999, 1000003, 1000001>>,
      <<-16777217, 0, 33554433, 1>>,
      <<I32Max, 0, 0, I32Max>> }

Lines ==
    { <<a, b, c, d>> : a \in LineXs, b \in LineYs, c \in LineXs, d \in LineYs }
    \cup FarLines

\* renderer.draw_line(x0, y0, x1, y1, 0xffffffff) is called on a frame of
\* Width + 1 by Height pixels: lines 38-49
InitLine ==
    /\ InitRenderer(Width + 1, Height)
    /\ scan = IdleScan
    /\ bary_in = <<>>
    /\ bary_out = <<>>
    /\ ray = IdleRay
    /\ ppm = IdlePpm
    /\ obj = IdleObj
    /\ \E l \in Lines :
          /\ call = [fn |-> "draw_line", st |-> "box_clip",
                     x0 |-> l[1], y0 |-> l[2], x1 |-> l[3], y1 |-> l[4],
                     written |-> {}, panicked |-> FALSE]
          /\ LET self == [x0 |-> f32_from(l[1]), y0 |-> f32_from(l[2]),
                          x1 |-> f32_from(l[3]), y1 |-> f32_from(l[4])]
             IN  clip = [st |-> "call", self |-> self,
                         rect |-> ScreenRect(Width + 1, Height), line |-> self,
                         outcode_start |-> 0, outcode_end |-> 0, iters |-> 0,
                         inexact |-> FALSE, calls |-> 1, first |-> self]

Rendered == [buffer |-> buffer, stride |-> width, written |-> call.written,
             panicked |-> call.panicked]

\* lines 51-52: box_clip returned None
LineOutside ==
    /\ call.st = "box_clip"
    /\ clip.st = "none"
    /\ call' = [call EXCEPT !.st = "returned"]
    /\ UNCHANGED <<width, height, buffer, z_buffer, last, ntri, seen, scan,
                   bary_in, bary_out, clip, ray, ppm, obj>>

\* lines 50, 54 and 56: box_clip returned Some(line); the end point is drawn
\* and the Ray is made
LineDrawEnd ==
    /\ call.st = "box_clip"
    /\ clip.st = "some"
    /\ \E checks \in BOOLEAN :
          LET x0 == f32_as_i32(clip.line.x0)
              y0 == f32_as_i32(clip.line.y0)
              x1 == f32_as_i32(clip.line.x1)
              y1 == f32_as_i32(clip.line.y1)
              rd == draw_pixel_unchecked(Rendered, x1, y1, White, checks)
          IN  /\ buffer' = rd.buffer
              /\ call' = [call EXCEPT !.st = IF rd.panicked THEN "panic" ELSE "ray",
                                      !.written = rd.written,
                                      !.panicked = rd.panicked]
              /\ ray' = IF rd.panicked THEN ray ELSE Ray_new(x0, y0, x1, y1)
    /\ UNCHANGED <<width, height, z_buffer, last, ntri, seen, scan,
                   bary_in, bary_out, clip, ppm, obj>>

\* lines 57-60: one turn of while !ray.reached
LineDrawNext ==
    /\ call.st = "ray"
    /\ ray.st = "run"
    /\ ~ray.reached
    /\ \E checks \in BOOLEAN :
          LET r == next_xy(ray)
              rd == draw_pixel_unchecked(Rendered, ray.x, ray.y, White, checks)
          IN  /\ ray' = r
              /\ IF r.st = "overflow"
                 THEN /\ call' = [call EXCEPT !.st = "panic", !.panicked = TRUE]
                      /\ UNCHANGED buffer
                 ELSE /\ buffer' = rd.buffer
                      /\ call' = [call EXCEPT !.st = IF rd.panicked THEN "panic" ELSE "ray",
                                              !.written = rd.written,
                                              !.panicked = rd.panicked]
    /\ UNCHANGED <<width, height, z_buffer, last, ntri, seen, scan,
                   bary_in, bary_out, clip, ppm, obj>>

\* line 57: reached is set, the loop and the call end
LineReturn ==
    /\ call.st = "ray"
    /\ ray.st = "overflow" \/ ray.reached
    /\ call' = [call EXCEPT !.st = IF ray.st = "overflow" THEN "panic" ELSE "returned",
                            !.panicked = ray.st = "overflow"]
    /\ UNCHANGED <<width, height, buffer, z_buffer, last, ntri, seen, scan,
                   bary_in, bary_out, clip, ray, ppm, obj>>

NextLine == ClipEnter \/ ClipStep \/ LineOutside \/ LineDrawEnd \/ LineDrawNext \/ LineReturn

SpecLine == InitLine /\ [][NextLine]_vars

(***************************************************************************)
(* Claims about draw_line.                                                 *)
(***************************************************************************)
LineEnded == call.st \in {"returned", "panic"}

\* the parameters t with lo <= a + t * d < hi for integers a, d, lo, hi: an
\* interval from .. to, whose ends may be open
HalfOpenSpan(a, d, lo, hi) ==
    IF d = 0
    THEN IF lo <= a /\ a < hi
         THEN [from |-> RInt(0), to |-> RInt(1), from_open |-> FALSE, to_open |-> FALSE]
         ELSE [from |-> RInt(1), to |-> RInt(0), from_open |-> FALSE, to_open |-> FALSE]
    ELSE IF d > 0
    THEN [from |-> Rat(lo - a, d), to |-> Rat(hi - a, d),
          from_open |-> FALSE, to_open |-> TRUE]
    ELSE [from |-> Rat(hi - a, d), to |-> Rat(lo - a, d),
          from_open |-> TRUE, to_open |-> FALSE]

\* some point of the segment (x0, y0) - (x1, y1) lies in [0, w) x [0, h)
SegmentMeetsScreen(x0, y0, x1, y1, w, h) ==
    LET sx == HalfOpenSpan(x0, x1 - x0, 0, w)
        sy == HalfOpenSpan(y0, y1 - y0, 0, h)
        unit == [from |-> RInt(0), to |-> RInt(1), from_open |-> FALSE, to_open |-> FALSE]
        Meet(s, t) ==
            [from |-> RMax(s.from, t.from),
             to |-> RMin(s.to, t.to),
             from_open |-> \/ (s.from_open /\ RLe(t.from, s.from))
                           \/ (t.from_open /\ RLe(s.from, t.from)),
             to_open |-> \/ (s.to_open /\ RLe(s.to, t.to))
                         \/ (t.to_open /\ RLe(t.to, s.to))]
        m == Meet(unit, Meet(sx, sy))
    IN  RLt(m.from, m.to) \/ (m.from = m.to /\ ~m.from_open /\ ~m.to_open)

LineIsNear ==
    /\ call.x0 \in LineXs /\ call.x1 \in LineXs
    /\ call.y0 \in LineYs /\ call.y1 \in LineYs

OnScreen(p) == 0 <= p[1] /\ p[1] < width /\ 0 <= p[2] /\ p[2] < height

C21_WitnessOutside ==
    /\ call.fn = "draw_line"
    /\ call.st = "returned"
    /\ clip.iters >= 1
    /\ ~SegmentMeetsScreen(call.x0, call.y0, call.x1, call.y1, width, height)

(***************************************************************************)
(* box_clip on segments that pass close to a corner of the rectangle       *)
(* [0, 19.9] x [0, 19.9] (19.9 being the f32 20 - 0.1 of draw_line for a   *)
(* frame of 20 pixels), with end points that are not integers, next to     *)
(* the segments with integer ends.                                         *)
(***************************************************************************)
GrazeRect ==
    [x_min |-> F32Zero, y_min |-> F32Zero,
     x_max |-> [sg |-> 1, m |-> 10433331, e |-> -19],
     y_max |-> [sg |-> 1, m |-> 10433331, e |-> -19]]

\* (-8.383683, 2.3383741) - (61.33639, 45.628277),
\* (-20.43882, 2.4650297) - (30.210941, 24.356525) and
\* (-13.239682, 2.6654768) - (63.73045, 42.694332)
GrazeLines ==
    { [x0 |-> [sg |-> -1, m |-> 8790929, e |-> -20],
       y0 |-> [sg |-> 1, m |-> 9807852, e |-> -22],
       x1 |-> [sg |-> 1, m |-> 16078967, e |-> -18],
       y1 |-> [sg |-> 1, m |-> 11961179, e |-> -18]],
      [x0 |-> [sg |-> -1, m |-> 10715828, e |-> -19],
       y0 |-> [sg |-> 1, m |-> 10339084, e |-> -22],
       x1 |-> [sg |-> 1, m |-> 15839234, e |-> -19],
       y1 |-> [sg |-> 1, m |-> 12769834, e |-> -19]],
      [x0 |-> [sg |-> -1, m |-> 13882813, e |-> -20],
       y0 |-> [sg |-> 1, m |-> 11179820, e |-> -22],
       x1 |-> [sg |-> 1, m |-> 16706555, e |-> -18],
       y1 |-> [sg |-> 1, m |-> 11192063, e |-> -18]] }

InitClipGraze ==
    /\ InitRenderer(Width, Height)
    /\ scan = IdleScan
    /\ bary_in = <<>>
    /\ bary_out = <<>>
    /\ ray = IdleRay
    /\ ppm = IdlePpm
    /\ obj = IdleObj
    /\ call = IdleCall
    /\ \E l \in ClipLines \cup GrazeLines :
          clip = [st |-> "call", self |-> l, rect |-> GrazeRect, line |-> l,
                  outcode_start |-> 0, outcode_end |-> 0, iters |-> 0,
                  inexact |-> FALSE, calls |-> 1, first |-> l]

SpecClipGraze == InitClipGraze /\ [][NextClip]_vars

\* C22: for every segment and every rectangle that is not degenerate the
\* loop of box_clip ends, in Some or in None, after at most 4 replacements
\* of an end point: no run of the loop replaces an end point a fifth time.
C22_AtMostFourReplacements ==
    ~RectDegenerate(clip.rect) => clip.iters <= 4 /\ clip.st \notin {"divzero", "panic"}

\* the loop has replaced an end point MaxIters times or more and is in a
\* cycle: two more turns bring back the line and the outcodes it has now
C22_Witness ==
    /\ clip.st = "loop"
    /\ ~RectDegenerate(clip.rect)
    /\ clip.iters = MaxIters
    /\ LET again == ClipIterate(ClipIterate(clip))
       IN  /\ again.st = "loop"
           /\ again.line = clip.line
           /\ again.outcode_start = clip.outcode_start
           /\ again.outcode_end = clip.outcode_end

(***************************************************************************)
(* The flag reached of the Ray, under SpecRay.  The calls of next_xy made  *)
(* so far are as many as the coordinates in ray.out.                       *)
(***************************************************************************)
ReachedAfterMajorDelta ==
    /\ Len(ray.out) <= MajorDelta
    /\ ray.reached <=> Len(ray.out) = MajorDelta
    /\ ray.reached => <<ray.x, ray.y>> = RayEnd

\* C23: for any integer end points the Ray sets reached after exactly
\* max(|x1 - x0|, |y1 - y0|) calls of next_xy, none when start and end are
\* equal; its position is then (x1, y1) on both axes; no run of new and
\* next_xy ends otherwise, so the loop while !reached ends.
C23_ReachedAfterMajorDelta ==
    /\ ray.st # "overflow"
    /\ ray.st = "run" => ReachedAfterMajorDelta

\* the same for end points whose differences stay below 2^30
C23_ReachedAfterMajorDeltaWhenSmall ==
    /\ RaySmall => ray.st # "overflow"
    /\ ray.st = "run" => ReachedAfterMajorDelta

\* the Ray from (0, 0) to (2^30 + RayMax, 2^30 + RayMax): the first call of
\* next_xy computes dx + dx, which does not fit in an i32
C23_Witness ==
    /\ ray.st = "overflow"
    /\ ray.x0 = 0 /\ ray.y0 = 0
    /\ ray.x1 = 1073741824 + RayMax /\ ray.y1 = ray.x1
    /\ ray.next = "iter_y"
    /\ ~ray.reached
    /\ ray.out = <<>>

====
